---- MODULE Spec2Model ----
(***************************************************************************)
(* IntelliQuery: the query agents (relational, document, tabular), their   *)
(* read-only validators, and the router that dispatches a request to them. *)
(* Texts are strings; the validators' regular expressions are run by a     *)
(* small backtracking matcher over those strings.                          *)
(***************************************************************************)
EXTENDS Integers, Sequences, FiniteSets, TLC

(***************************************************************************)
(* Strings (Python str): characters, case mapping, strip, startswith,      *)
(* split.                                                                  *)
(***************************************************************************)

\* s[i-1] in Python terms: the i-th character, as a one-character string.
Ch(s, i) == SubSeq(s, i, i)

LowerLetters == "abcdefghijklmnopqrstuvwxyz"

UpperLetters == "ABCDEFGHIJKLMNOPQRSTUVWXYZ"

Digits == "0123456789"

CharsOf(s) == { Ch(s, i) : i \in 1..Len(s) }

\* str.upper() on one character (ASCII letters).
UpperMap == [ c \in CharsOf(LowerLetters) |->
                Ch(UpperLetters, CHOOSE i \in 1..26 : Ch(LowerLetters, i) = c) ]

\* str.lower() on one character (ASCII letters).
LowerMap == [ c \in CharsOf(UpperLetters) |->
                Ch(LowerLetters, CHOOSE i \in 1..26 : Ch(UpperLetters, i) = c) ]

UpperCh(c) == IF c \in DOMAIN UpperMap THEN UpperMap[c] ELSE c

LowerCh(c) == IF c \in DOMAIN LowerMap THEN LowerMap[c] ELSE c

RECURSIVE MapChars(_, _, _)
MapChars(s, i, up) ==
    IF i > Len(s) THEN ""
    ELSE (IF up THEN UpperCh(Ch(s, i)) ELSE LowerCh(Ch(s, i))) \o MapChars(s, i + 1, up)

\* str.upper()
ToUpper(s) == MapChars(s, 1, TRUE)

\* str.lower()
ToLower(s) == MapChars(s, 1, FALSE)

\* The characters str.strip() removes and \s matches.
Whitespace == {" ", "\n", "\t", "\r"}

\* The characters \w matches: letters, digits, underscore.
WordChars == CharsOf(LowerLetters) \cup CharsOf(UpperLetters) \cup CharsOf(Digits) \cup {"_"}

RECURSIVE LStripFrom(_, _)
LStripFrom(s, i) ==
    IF i <= Len(s) /\ Ch(s, i) \in Whitespace THEN LStripFrom(s, i + 1) ELSE i

RECURSIVE RStripFrom(_, _)
RStripFrom(s, j) ==
    IF j >= 1 /\ Ch(s, j) \in Whitespace THEN RStripFrom(s, j - 1) ELSE j

\* str.strip()
Strip(s) == SubSeq(s, LStripFrom(s, 1), RStripFrom(s, Len(s)))

\* s[i-1:j] in Python terms: a slice never fails, it is cut at the ends of s.
Slice(s, i, j) ==
    SubSeq(s, IF i < 1 THEN 1 ELSE i, IF j > Len(s) THEN Len(s) ELSE j)

\* str.startswith(p)
StartsWith(s, p) == Slice(s, 1, Len(p)) = p

\* str.startswith(p, i-1)
StartsWithAt(s, p, i) == Slice(s, i, i + Len(p) - 1) = p

\* Position of the first occurrence of the character sep at or after i, 0 if none.
RECURSIVE FindCh(_, _, _)
FindCh(s, sep, i) ==
    IF i > Len(s) THEN 0
    ELSE IF Ch(s, i) = sep THEN i
    ELSE FindCh(s, sep, i + 1)

\* str.split(sep) for a one-character separator: the pieces, empty ones included.
RECURSIVE SplitFrom(_, _, _)
SplitFrom(s, sep, i) ==
    LET j == FindCh(s, sep, i)
    IN  IF j = 0 THEN << SubSeq(s, i, Len(s)) >>
        ELSE << SubSeq(s, i, j - 1) >> \o SplitFrom(s, sep, j + 1)

Split(s, sep) == SplitFrom(s, sep, 1)

\* Concatenation of a sequence of strings.
RECURSIVE Concat(_)
Concat(ss) == IF ss = << >> THEN "" ELSE Head(ss) \o Concat(Tail(ss))

(***************************************************************************)
(* Regular expressions (Python re).  A pattern is a sequence of items; an  *)
(* item is a literal string, a character class with a quantifier, or a     *)
(* zero-width assertion.  The patterns of this program use nothing else    *)
(* (no groups, no alternation).                                            *)
(***************************************************************************)

\* A literal string.
Lit(s) == [k |-> "lit", s |-> s, cs |-> {}, neg |-> FALSE, q |-> "1"]

\* One character of the set cs (neg: any character not in cs), quantified by
\* q: "1" once, "?" optional, "*" any number, "+" at least one.
Cls(cs, neg, q) == [k |-> "cls", s |-> "", cs |-> cs, neg |-> neg, q |-> q]

\* \b
WordB == [k |-> "wb", s |-> "", cs |-> {}, neg |-> FALSE, q |-> "1"]

\* ^
Bol == [k |-> "bol", s |-> "", cs |-> {}, neg |-> FALSE, q |-> "1"]

\* $
Eol == [k |-> "eol", s |-> "", cs |-> {}, neg |-> FALSE, q |-> "1"]

\* \s with a quantifier
Ws(q) == Cls(Whitespace, FALSE, q)

\* \w with a quantifier
Wd(q) == Cls(WordChars, FALSE, q)

\* . with a quantifier: any character but a newline
Dot(q) == Cls({"\n"}, TRUE, q)

\* Flags of a search: ic = re.IGNORECASE, ml = re.MULTILINE.
NoFlags == [ic |-> FALSE, ml |-> FALSE]

IsWordAt(s, i) == i >= 1 /\ i <= Len(s) /\ Ch(s, i) \in WordChars

\* Whether the zero-width item it holds between s[i-1] and s[i].
Asserts(it, s, i, fl) ==
    CASE it.k = "wb"  -> IsWordAt(s, i - 1) # IsWordAt(s, i)
      [] it.k = "bol" -> i = 1 \/ (fl.ml /\ Ch(s, i - 1) = "\n")
      [] it.k = "eol" -> \/ i = Len(s) + 1
                         \/ (i = Len(s) /\ Ch(s, i) = "\n")
                         \/ (fl.ml /\ i <= Len(s) /\ Ch(s, i) = "\n")

\* Whether the class item it accepts the character s[i].
Accepts(it, s, i, fl) ==
    /\ i <= Len(s)
    /\ LET c == Ch(s, i)
           in == IF fl.ic THEN LowerCh(c) \in it.cs \/ UpperCh(c) \in it.cs
                 ELSE c \in it.cs
       IN  in # it.neg

\* Whether the literal item it is found at s[i..].
LitAt(it, s, i, fl) ==
    /\ i + Len(it.s) - 1 <= Len(s)
    /\ LET t == SubSeq(s, i, i + Len(it.s) - 1)
       IN  IF fl.ic THEN ToLower(t) = ToLower(it.s) ELSE t = it.s

\* The backtracking matcher: the position after the match of items k.. of re
\* started at s[i], preferring the longer repetition as re does (greedy);
\* 0 if there is no match.
RECURSIVE MatchEnd(_, _, _, _, _)
MatchEnd(re, k, s, i, fl) ==
    IF k > Len(re) THEN i
    ELSE LET it == re[k]
         IN  CASE it.k = "lit" ->
                    IF LitAt(it, s, i, fl) THEN MatchEnd(re, k + 1, s, i + Len(it.s), fl) ELSE 0
               [] it.k \in {"wb", "bol", "eol"} ->
                    IF Asserts(it, s, i, fl) THEN MatchEnd(re, k + 1, s, i, fl) ELSE 0
               [] it.k = "cls" /\ it.q = "1" ->
                    IF Accepts(it, s, i, fl) THEN MatchEnd(re, k + 1, s, i + 1, fl) ELSE 0
               [] it.k = "cls" /\ it.q = "?" ->
                    LET taken == IF Accepts(it, s, i, fl)
                                 THEN MatchEnd(re, k + 1, s, i + 1, fl) ELSE 0
                    IN  IF taken # 0 THEN taken ELSE MatchEnd(re, k + 1, s, i, fl)
               [] it.k = "cls" /\ it.q = "*" ->
                    LET more == IF Accepts(it, s, i, fl)
                                THEN MatchEnd(re, k, s, i + 1, fl) ELSE 0
                    IN  IF more # 0 THEN more ELSE MatchEnd(re, k + 1, s, i, fl)
               [] it.k = "cls" /\ it.q = "+" ->
                    IF Accepts(it, s, i, fl)
                    THEN LET more == MatchEnd(re, k, s, i + 1, fl)
                         IN  IF more # 0 THEN more ELSE MatchEnd(re, k + 1, s, i + 1, fl)
                    ELSE 0

\* The start of the leftmost match of re in s at or after i, 0 if none.
RECURSIVE SearchFrom(_, _, _, _)
SearchFrom(re, s, i, fl) ==
    IF i > Len(s) + 1 THEN 0
    ELSE IF MatchEnd(re, 1, s, i, fl) # 0 THEN i
    ELSE SearchFrom(re, s, i + 1, fl)

\* re.search(re, s, flags) is not None
Search(re, s, fl) == SearchFrom(re, s, 1, fl) # 0

\* re.sub(re, '', s) for a pattern that can match at one place only (it is
\* anchored): the leftmost match removed.
SubOnce(re, s, fl) ==
    LET i == SearchFrom(re, s, 1, fl)
    IN  IF i = 0 THEN s
        ELSE SubSeq(s, 1, i - 1) \o SubSeq(s, MatchEnd(re, 1, s, i, fl), Len(s))

(***************************************************************************)
(* SQLAgent (relational).                                                  *)
(***************************************************************************)

\* The words of FORBIDDEN_SQL_KEYWORDS, in the list's order; entry k of the list
\* is the pattern \bWORD\b.
SqlKeywordNames ==
    << "INSERT", "UPDATE", "DELETE", "DROP", "CREATE", "ALTER", "TRUNCATE",
       "GRANT", "REVOKE", "EXEC", "EXECUTE", "MERGE", "REPLACE", "CALL" >>

FORBIDDEN_SQL_KEYWORDS ==
    [ k \in 1..Len(SqlKeywordNames) |-> << WordB, Lit(SqlKeywordNames[k]), WordB >> ]

\* A verdict (is_valid, error_message).
Verdict(ok, reason) == [ok |-> ok, reason |-> reason, raised |-> FALSE]

\* [s.strip() for s in generated_query.split(';') if s.strip()]
StrippedNonEmpty(parts) ==
    SelectSeq([ i \in 1..Len(parts) |-> Strip(parts[i]) ], LAMBDA st : st # "")

\* SqlStatements with 'if s' for 'if s.strip()'.
SqlStatementsUntrimmed(generated_query) ==
    SelectSeq(Split(generated_query, ";"), LAMBDA st : st # "")

SqlStatements(generated_query) == StrippedNonEmpty(Split(generated_query, ";"))

\* The least element of a non-empty set of numbers: the first pattern of a
\* list that matched.
First(hits) == CHOOSE k \in hits : \A j \in hits : k <= j

\* The entries of FORBIDDEN_SQL_KEYWORDS found in the text.
SqlKeywordHits(query_upper) ==
    { k \in 1..Len(FORBIDDEN_SQL_KEYWORDS) :
        Search(FORBIDDEN_SQL_KEYWORDS[k], query_upper, NoFlags) }

\* SqlVerdict with the opening looked for anywhere in the text ('in' for
\* startswith).
SqlVerdictOpeningAnywhere(generated_query, query_upper, hits) ==
    IF ~(\E i \in 1..Len(query_upper) :
           StartsWithAt(query_upper, "SELECT", i) \/ StartsWithAt(query_upper, "WITH", i))
    THEN Verdict(FALSE, "Query must start with SELECT or WITH")
    ELSE IF hits # {}
    THEN Verdict(FALSE, "Forbidden keyword detected: " \o SqlKeywordNames[First(hits)])
    ELSE IF Len(SqlStatements(generated_query)) > 1
    THEN Verdict(FALSE, "Multiple statements not allowed")
    ELSE Verdict(TRUE, "")

\* validate_readonly, lines 101-116, given query_upper and the keywords found.
SqlVerdict(generated_query, query_upper, hits) ==
    IF ~(StartsWith(query_upper, "SELECT") \/ StartsWith(query_upper, "WITH"))
    THEN Verdict(FALSE, "Query must start with SELECT or WITH")
    ELSE IF hits # {}
    THEN Verdict(FALSE, "Forbidden keyword detected: " \o SqlKeywordNames[First(hits)])
    ELSE IF Len(SqlStatements(generated_query)) > 1
    THEN Verdict(FALSE, "Multiple statements not allowed")
    ELSE Verdict(TRUE, "")

\* SqlValidateReadonly without .upper().
SqlValidateReadonlyCaseSensitive(generated_query) ==
    SqlVerdict(generated_query, Strip(generated_query),
               SqlKeywordHits(Strip(generated_query)))

\* SQLAgent.validate_readonly
SqlValidateReadonly(generated_query) ==
    SqlVerdict(generated_query, Strip(ToUpper(generated_query)),
               SqlKeywordHits(Strip(ToUpper(generated_query))))

(***************************************************************************)
(* JSON (Python json.loads), for the document agent.  A value is a record  *)
(* [t, s, n, kids]: t its type, s the text of a string, n the value of a   *)
(* number, kids the items of an array or the members [key, val] of an      *)
(* object, in the order written.                                           *)
(***************************************************************************)

JNull == [t |-> "null", s |-> "", n |-> 0, kids |-> << >>]

JBool(b) == [t |-> "bool", s |-> "", n |-> IF b THEN 1 ELSE 0, kids |-> << >>]

JStr(str) == [t |-> "str", s |-> str, n |-> 0, kids |-> << >>]

\* An integer; a number with a fraction has t = "float" and its digits in s.
JNum(n) == [t |-> "int", s |-> "", n |-> n, kids |-> << >>]

JFloat(n, frac) == [t |-> "float", s |-> frac, n |-> n, kids |-> << >>]

JArr(items) == [t |-> "arr", s |-> "", n |-> 0, kids |-> items]

JObj(members) == [t |-> "obj", s |-> "", n |-> 0, kids |-> members]

\* The result of a parsing step: ok, the value, and the position after it.
JOk(v, pos) == [ok |-> TRUE, v |-> v, pos |-> pos]

JFail == [ok |-> FALSE, v |-> JNull, pos |-> 0]

JsonWhitespace == {" ", "\t", "\n", "\r"}

RECURSIVE JSkipWs(_, _)
JSkipWs(s, i) ==
    IF i <= Len(s) /\ Ch(s, i) \in JsonWhitespace THEN JSkipWs(s, i + 1) ELSE i

DigitValue(c) == CHOOSE d \in 0..9 : Ch(Digits, d + 1) = c

IsDigitAt(s, i) == i <= Len(s) /\ Ch(s, i) \in CharsOf(Digits)

\* The position after the run of digits starting at i.
RECURSIVE JDigitsEnd(_, _)
JDigitsEnd(s, i) == IF IsDigitAt(s, i) THEN JDigitsEnd(s, i + 1) ELSE i

RECURSIVE JDigitsValue(_, _, _, _)
JDigitsValue(s, i, j, acc) ==
    IF i >= j THEN acc ELSE JDigitsValue(s, i + 1, j, acc * 10 + DigitValue(Ch(s, i)))

\* A number -?(0|[1-9]\d*)(\.\d+)? at s[i..]; exponents are outside the
\* modelled alphabet.
JParseNumber(s, i) ==
    LET neg == i <= Len(s) /\ Ch(s, i) = "-"
        a   == IF neg THEN i + 1 ELSE i
        b   == IF IsDigitAt(s, a) /\ Ch(s, a) = "0" THEN a + 1 ELSE JDigitsEnd(s, a)
        int == (IF neg THEN -1 ELSE 1) * JDigitsValue(s, a, b, 0)
        c   == IF b <= Len(s) /\ Ch(s, b) = "." THEN JDigitsEnd(s, b + 1) ELSE b
    IN  IF b = a THEN JFail
        ELSE IF c > b + 1 THEN JOk(JFloat(int, SubSeq(s, b + 1, c - 1)), c)
        ELSE JOk(JNum(int), b)

\* A string "..." at s[i..] (s[i] is the opening quote): no control
\* character inside; escapes are outside the modelled alphabet.
JParseString(s, i) ==
    LET j == FindCh(s, "\"", i + 1)
        body == SubSeq(s, i + 1, j - 1)
    IN  IF j = 0 \/ \E x \in 1..Len(body) : Ch(body, x) \in {"\n", "\t", "\r", "\\"}
        THEN JFail
        ELSE JOk(JStr(body), j + 1)

RECURSIVE JParseValue(_, _)
RECURSIVE JParseItems(_, _, _)
RECURSIVE JParseMembers(_, _, _)

\* The items of an array after '[' or ',': s[i] starts an item.
JParseItems(s, i, acc) ==
    LET r == JParseValue(s, i)
        j == JSkipWs(s, r.pos)
    IN  IF ~r.ok \/ j > Len(s) THEN JFail
        ELSE IF Ch(s, j) = "]" THEN JOk(JArr(Append(acc, r.v)), j + 1)
        ELSE IF Ch(s, j) = "," THEN JParseItems(s, JSkipWs(s, j + 1), Append(acc, r.v))
        ELSE JFail

\* The members of an object after '{' or ',': s[i] starts a key.
JParseMembers(s, i, acc) ==
    LET key == IF i <= Len(s) /\ Ch(s, i) = "\"" THEN JParseString(s, i) ELSE JFail
        c   == JSkipWs(s, key.pos)
        r   == IF key.ok /\ c <= Len(s) /\ Ch(s, c) = ":"
               THEN JParseValue(s, JSkipWs(s, c + 1)) ELSE JFail
        j   == JSkipWs(s, r.pos)
        mem == Append(acc, [key |-> key.v.s, val |-> r.v])
    IN  IF ~r.ok \/ j > Len(s) THEN JFail
        ELSE IF Ch(s, j) = "}" THEN JOk(JObj(mem), j + 1)
        ELSE IF Ch(s, j) = "," THEN JParseMembers(s, JSkipWs(s, j + 1), mem)
        ELSE JFail

JParseValue(s, i) ==
    IF i > Len(s) THEN JFail
    ELSE LET c == Ch(s, i)
         IN  CASE c = "{" ->
                    LET j == JSkipWs(s, i + 1)
                    IN  IF j <= Len(s) /\ Ch(s, j) = "}" THEN JOk(JObj(<< >>), j + 1)
                        ELSE JParseMembers(s, j, << >>)
               [] c = "[" ->
                    LET j == JSkipWs(s, i + 1)
                    IN  IF j <= Len(s) /\ Ch(s, j) = "]" THEN JOk(JArr(<< >>), j + 1)
                        ELSE JParseItems(s, j, << >>)
               [] c = "\"" -> JParseString(s, i)
               [] c = "-" \/ c \in CharsOf(Digits) -> JParseNumber(s, i)
               [] c = "t" -> IF StartsWithAt(s, "true", i)
                             THEN JOk(JBool(TRUE), i + 4) ELSE JFail
               [] c = "f" -> IF StartsWithAt(s, "false", i)
                             THEN JOk(JBool(FALSE), i + 5) ELSE JFail
               [] c = "n" -> IF StartsWithAt(s, "null", i)
                             THEN JOk(JNull, i + 4) ELSE JFail
               [] OTHER -> JFail

\* The end of json.loads: only whitespace may follow the value parsed.
JsonWhole(text, r) ==
    IF r.ok /\ JSkipWs(text, r.pos) = Len(text) + 1 THEN r ELSE JFail

\* json.loads(text): ok = FALSE is JSONDecodeError.
JsonLoads(text) == JsonWhole(text, JParseValue(text, JSkipWs(text, 1)))

\* Whether the object obj has the key.
JHas(obj, key) == \E i \in 1..Len(obj.kids) : obj.kids[i].key = key

\* dict.get(key, default) on a parsed object: the last member written wins.
JGet(obj, key, default) ==
    IF JHas(obj, key)
    THEN obj.kids[CHOOSE i \in 1..Len(obj.kids) :
                    /\ obj.kids[i].key = key
                    /\ \A j \in 1..Len(obj.kids) : obj.kids[j].key = key => j <= i].val
    ELSE default

(***************************************************************************)
(* MongoAgent (document).                                                  *)
(***************************************************************************)

FORBIDDEN_MONGO_OPERATIONS ==
    << "insert", "insertone", "insertmany",
       "update", "updateone", "updatemany",
       "delete", "deleteone", "deletemany",
       "drop", "dropcollection", "dropdatabase",
       "create", "createcollection", "createindex",
       "remove", "save", "replace", "replaceone",
       "findoneandupdate", "findoneandreplace", "findoneanddelete",
       "bulkwrite", "rename" >>

Quotes == {"\"", "'"}

\* rf'["\']?{op}["\']?\s*[:(]'
MongoTokenPattern(op) ==
    << Cls(Quotes, FALSE, "?"), Lit(op), Cls(Quotes, FALSE, "?"), Ws("*"),
       Cls({":", "("}, FALSE, "1") >>

\* rf'\.{op}\s*\('
MongoMethodPattern(op) == << Lit("."), Lit(op), Ws("*"), Lit("(") >>

\* An exception raised instead of a verdict.
Raised(exc) == [ok |-> FALSE, reason |-> exc, raised |-> TRUE]

MongoAllowedOperations == {"find", "aggregate", "count", "distinct"}

\* validate_readonly, lines 103-106, given the parsed text: query_json.get(...)
\* needs a dict and .lower() a str, and only JSONDecodeError is caught.
MongoOperationVerdict(query_json, operation) ==
    IF query_json.t # "obj" \/ operation.t # "str" THEN Raised("AttributeError")
    ELSE IF ToLower(operation.s) \notin MongoAllowedOperations
    THEN Verdict(FALSE, "Only find, aggregate, count, and distinct operations are allowed")
    ELSE Verdict(TRUE, "")

\* validate_readonly, lines 101-112, given json.loads of the text.
MongoParsedVerdict(parsed) ==
    IF ~parsed.ok THEN Verdict(TRUE, "")
    ELSE MongoOperationVerdict(parsed.v, JGet(parsed.v, "operation", JStr("")))

\* validate_readonly, lines 100-112: the JSON part.
MongoOperationCheck(generated_query) == MongoParsedVerdict(JsonLoads(generated_query))

\* Entry k of FORBIDDEN_MONGO_OPERATIONS found as a key or call token.
MongoTokenHit(k, query_lower) ==
    Search(MongoTokenPattern(FORBIDDEN_MONGO_OPERATIONS[k]), query_lower, NoFlags)

\* Entry k of FORBIDDEN_MONGO_OPERATIONS found as a method call.
MongoMethodHit(k, query_lower) ==
    Search(MongoMethodPattern(FORBIDDEN_MONGO_OPERATIONS[k]), query_lower, NoFlags)

\* The entries of FORBIDDEN_MONGO_OPERATIONS found in the text.
MongoHits(query_lower) ==
    { k \in 1..Len(FORBIDDEN_MONGO_OPERATIONS) :
        MongoTokenHit(k, query_lower) \/ MongoMethodHit(k, query_lower) }

\* validate_readonly, lines 93-98, for the first entry found.
MongoDenyVerdict(k, query_lower) ==
    IF MongoTokenHit(k, query_lower)
    THEN Verdict(FALSE, "Forbidden operation detected: " \o FORBIDDEN_MONGO_OPERATIONS[k])
    ELSE Verdict(FALSE, "Forbidden method detected: " \o FORBIDDEN_MONGO_OPERATIONS[k])

\* validate_readonly, given query_lower and the entries found.
MongoVerdict(generated_query, query_lower, hits) ==
    IF hits # {} THEN MongoDenyVerdict(First(hits), query_lower)
    ELSE MongoOperationCheck(generated_query)

\* MongoAgent.validate_readonly
MongoValidateReadonly(generated_query) ==
    MongoVerdict(generated_query, ToLower(generated_query),
                 MongoHits(ToLower(generated_query)))

\* r'\{[\s\S]*\}'
MongoJsonBlockPattern == << Lit("{"), Cls({}, TRUE, "*"), Lit("}") >>

\* MongoAgent._parse_query: the text as JSON, else the text from its first
\* '{' to its last '}' as JSON, else a plain find.
\* The match of a pattern in the text that starts at i (the whole text when
\* nothing matches).
MatchText(re, s, i) ==
    IF i = 0 THEN s ELSE Slice(s, i, MatchEnd(re, 1, s, i, NoFlags) - 1)

\* _parse_query, lines 122-131, given json.loads of the block found (or none).
MongoParseBlock(found, block) ==
    IF found /\ block.ok THEN block.v
    ELSE JObj(<< [key |-> "operation", val |-> JStr("find")],
                 [key |-> "filter", val |-> JObj(<< >>)] >>)

\* _parse_query, given json.loads of the whole text.
MongoParseWhole(generated_query, whole) ==
    IF whole.ok THEN whole.v
    ELSE MongoParseBlock(
             Search(MongoJsonBlockPattern, generated_query, NoFlags),
             JsonLoads(MatchText(MongoJsonBlockPattern, generated_query,
                           SearchFrom(MongoJsonBlockPattern, generated_query, 1, NoFlags))))

\* MongoAgent._parse_query: the text as JSON, else the text from its first
\* '{' to its last '}' as JSON, else a plain find.
MongoParseQuery(generated_query) ==
    MongoParseWhole(generated_query, JsonLoads(generated_query))

(***************************************************************************)
(* PandasAgent (tabular).                                                  *)
(***************************************************************************)

\* A pattern of FORBIDDEN_PATTERNS: its source text and its items.
Pat(src, re) == [src |-> src, re |-> re]

\* r'\.NAME\s*\('
CallOf(name) == << Lit("." \o name), Ws("*"), Lit("(") >>

\* r'\.NAME\s*\([^)]*inplace\s*=\s*True'
InplaceCallOf(name) ==
    << Lit("." \o name), Ws("*"), Lit("("), Cls({")"}, TRUE, "*"),
       Lit("inplace"), Ws("*"), Lit("="), Ws("*"), Lit("True") >>

\* r'\bNAME\s*\('
BuiltinCallOf(name) == << WordB, Lit(name), Ws("*"), Lit("(") >>

FORBIDDEN_PATTERNS ==
    << Pat("\\.to_sql\\s*\\(", CallOf("to_sql")),
       Pat("\\.to_csv\\s*\\(", CallOf("to_csv")),
       Pat("\\.to_excel\\s*\\(", CallOf("to_excel")),
       Pat("\\.to_json\\s*\\(", CallOf("to_json")),
       Pat("\\.to_pickle\\s*\\(", CallOf("to_pickle")),
       Pat("\\.to_parquet\\s*\\(", CallOf("to_parquet")),
       Pat("\\.to_hdf\\s*\\(", CallOf("to_hdf")),
       Pat("\\.to_feather\\s*\\(", CallOf("to_feather")),
       Pat("\\bopen\\s*\\(", BuiltinCallOf("open")),
       Pat("\\bexec\\s*\\(", BuiltinCallOf("exec")),
       Pat("\\beval\\s*\\(", BuiltinCallOf("eval")),
       Pat("\\bimport\\s+", << WordB, Lit("import"), Ws("+") >>),
       Pat("\\bfrom\\s+\\w+\\s+import",
           << WordB, Lit("from"), Ws("+"), Wd("+"), Ws("+"), Lit("import") >>),
       Pat("\\b__\\w+__\\b", << WordB, Lit("__"), Wd("+"), Lit("__"), WordB >>),
       Pat("\\bos\\.", << WordB, Lit("os.") >>),
       Pat("\\bsys\\.", << WordB, Lit("sys.") >>),
       Pat("\\bsubprocess\\.", << WordB, Lit("subprocess.") >>),
       Pat("\\bshutil\\.", << WordB, Lit("shutil.") >>),
       Pat("\\brequests\\.", << WordB, Lit("requests.") >>),
       Pat("\\burllib\\.", << WordB, Lit("urllib.") >>),
       Pat("\\.drop\\s*\\(", CallOf("drop")),
       Pat("\\.drop_duplicates\\s*\\([^)]*inplace\\s*=\\s*True", InplaceCallOf("drop_duplicates")),
       Pat("\\.fillna\\s*\\([^)]*inplace\\s*=\\s*True", InplaceCallOf("fillna")),
       Pat("\\.replace\\s*\\([^)]*inplace\\s*=\\s*True", InplaceCallOf("replace")),
       Pat("\\.rename\\s*\\([^)]*inplace\\s*=\\s*True", InplaceCallOf("rename")),
       Pat("\\.reset_index\\s*\\([^)]*inplace\\s*=\\s*True", InplaceCallOf("reset_index")),
       Pat("\\.set_index\\s*\\([^)]*inplace\\s*=\\s*True", InplaceCallOf("set_index")),
       Pat("\\.sort_values\\s*\\([^)]*inplace\\s*=\\s*True", InplaceCallOf("sort_values")),
       Pat("\\.sort_index\\s*\\([^)]*inplace\\s*=\\s*True", InplaceCallOf("sort_index")),
       Pat("\\bdel\\s+", << WordB, Lit("del"), Ws("+") >>),
       Pat("\\.pop\\s*\\(", CallOf("pop")),
       Pat("\\.insert\\s*\\(", CallOf("insert")),
       Pat("\\[.*\\]\\s*=", << Lit("["), Dot("*"), Lit("]"), Ws("*"), Lit("=") >>) >>

IgnoreCase == [ic |-> TRUE, ml |-> FALSE]

MultiLine == [ic |-> FALSE, ml |-> TRUE]

\* r'^df\s*='
DfAssignPattern == << Bol, Lit("df"), Ws("*"), Lit("=") >>

\* r'^df\s*=\s*df\.'
DfSelfAssignPattern == << Bol, Lit("df"), Ws("*"), Lit("="), Ws("*"), Lit("df.") >>

\* PandasAgent.validate_readonly.  parses: whether ast.parse(generated_query)
\* accepts the text (the Python grammar is an input of the model; the text of
\* the SyntaxError is left out of the reason).
PandasVerdict(generated_query, parses, hits) ==
    IF hits # {}
    THEN Verdict(FALSE, "Forbidden pattern detected: " \o FORBIDDEN_PATTERNS[First(hits)].src)
    ELSE IF ~parses
    THEN Verdict(FALSE, "Invalid Python syntax")
    ELSE IF /\ Search(DfAssignPattern, generated_query, MultiLine)
            /\ ~Search(DfSelfAssignPattern, generated_query, MultiLine)
    THEN Verdict(FALSE, "Direct DataFrame reassignment not allowed")
    ELSE Verdict(TRUE, "")

\* The entries of FORBIDDEN_PATTERNS found in the text.
PandasPatternHits(generated_query) ==
    { k \in 1..Len(FORBIDDEN_PATTERNS) :
        Search(FORBIDDEN_PATTERNS[k].re, generated_query, IgnoreCase) }

PandasValidateReadonly(generated_query, parses) ==
    PandasVerdict(generated_query, parses, PandasPatternHits(generated_query))

(***************************************************************************)
(* BaseAgent: cleaning of the generated text.                              *)
(***************************************************************************)

\* The markdown fence: three backquotes.  A string of this notation cannot
\* hold a backquote, so the model's texts write the backquote as ~ .
Fence == "~~~"

\* r'^FENCE[\w]*\n?'
FenceOpenPattern == << Bol, Lit(Fence), Wd("*"), Cls({"\n"}, FALSE, "?") >>

\* r'\n?FENCE$'
FenceClosePattern == << Cls({"\n"}, FALSE, "?"), Lit(Fence), Eol >>

prefixes_to_remove == << "SQL:", "Query:", "MongoDB Query:", "Pandas Code:" >>

\* The loop over prefixes_to_remove, from prefix k on.
RECURSIVE RemovePrefixes(_, _)
RemovePrefixes(query, k) ==
    IF k > Len(prefixes_to_remove) THEN query
    ELSE LET prefix == prefixes_to_remove[k]
         IN  IF StartsWith(ToLower(query), ToLower(prefix))
             THEN RemovePrefixes(Strip(Slice(query, Len(prefix) + 1, Len(query))), k + 1)
             ELSE RemovePrefixes(query, k + 1)

\* BaseAgent._clean_generated_query
CleanGeneratedQuery(query) ==
    RemovePrefixes(
        Strip(SubOnce(FenceClosePattern, SubOnce(FenceOpenPattern, query, NoFlags), NoFlags)),
        1)

(***************************************************************************)
(* The world around the agents: the datasource registry, the requesters,   *)
(* what the language models may answer and what the backends may return.   *)
(***************************************************************************)

\* Optional[T]: None is << >>, a value v is << v >>.
None == << >>

Some(v) == << v >>

IsNone(o) == o = << >>

\* Rows at most this many above a cap are told apart.
MaxOverCap == 1

\* result.head(1000) / result[:1000] in PandasAgent.execute_query
PANDAS_ROW_CAP == 1000

\* query_obj.get("limit", 100) and {"$limit": 100} in MongoAgent.execute_query
MONGO_DEFAULT_LIMIT == 100

\* How many rows a backend may hold for a query: none, a few, and up to
\* MaxOverCap more than each cap of the code.
BackendRowCounts ==
    {0, 1, 3} \cup { MONGO_DEFAULT_LIMIT + d : d \in 0..MaxOverCap }
              \cup { PANDAS_ROW_CAP + d : d \in 0..MaxOverCap }

Users == {"u1", "u2"}

\* The datasources collection: id -> record (user_id, type).
Registry ==
    [ id \in {"d_sql", "d_mongo", "d_pandas", "d_other"} |->
        CASE id = "d_sql"    -> [user_id |-> "u1", type |-> "mysql",  collection |-> ""]
          [] id = "d_mongo"  -> [user_id |-> "u1", type |-> "mongo",  collection |-> ""]
          [] id = "d_pandas" -> [user_id |-> "u2", type |-> "pandas", collection |-> ""]
          [] id = "d_other"  -> [user_id |-> "u2", type |-> "oracle", collection |-> ""] ]

\* The identifiers a request may carry: those of the registry and one of no record.
DatasourceIds == DOMAIN Registry \cup {"d_none"}

\* datasources.store.get_datasource_by_id
GetDatasourceById(datasource_id) ==
    IF datasource_id \in DOMAIN Registry THEN Some(Registry[datasource_id]) ELSE None

Agents == {"sql", "mongo", "pandas"}

\* AIRouter._agents: datasource type -> agent.
AgentMapping ==
    [ t \in {"mysql", "psql", "sql", "mongo", "mongodb", "pandas", "csv", "excel"} |->
        IF t \in {"mysql", "psql", "sql"} THEN "sql"
        ELSE IF t \in {"mongo", "mongodb"} THEN "mongo"
        ELSE "pandas" ]

\* AIRouter._get_agent: None stands for the ValueError it raises.
GetAgent(datasource_type) ==
    IF ToLower(datasource_type) \in DOMAIN AgentMapping
    THEN Some(AgentMapping[ToLower(datasource_type)])
    ELSE None

\* AIRouter._get_datasource_enum
GetDatasourceEnum(datasource_type) ==
    IF ToLower(datasource_type) \in DOMAIN AgentMapping
    THEN AgentMapping[ToLower(datasource_type)]
    ELSE "sql"

\* What a language-model tier may answer for each agent (already stripped, as
\* both clients strip their answer).
LlmAnswers ==
    [ a \in Agents |->
        CASE a = "sql" ->
               { "SELECT x FROM t",
                 "~~~sql\nSELECT x FROM t\n~~~",
                 "SQL: select x from t; drop table t",
                 "DELETE FROM t",
                 "SQL:" }
          [] a = "mongo" ->
               { "{\"operation\":\"find\",\"filter\":{},\"limit\":5}",
                 "{\"operation\":\"find\",\"filter\":{},\"limit\":1001}",
                 "{\"operation\":\"find\",\"filter\":{\"action\":\"delete\"}}",
                 "{\"operation\":\"find\",\"filter\":{}}",
                 "MongoDB Query: {\"operation\":\"aggregate\",\"pipeline\":[]}",
                 "{\"operation\":\"deleteMany\",\"filter\":{}}",
                 "db.users.drop()",
                 "[]" }
          [] a = "pandas" ->
               { "df.head()",
                 "~~~python\ndf.to_csv('x.csv')\n~~~",
                 "Pandas Code: df.fillna(df.mean(), inplace=True)",
                 "df = pd.DataFrame()",
                 "df.head(",
                 "pd.read_csv('x.csv')",
                 "df.sort_values('a')",
                 "df.a + df.b",
                 "np.zeros(3)" } ]

\* The snippets of LlmAnswers, cleaned, that ast.parse accepts and rejects.
PyValidSnippets ==
    { "df.head()", "df.to_csv('x.csv')", "df.fillna(df.mean(), inplace=True)",
      "df = pd.DataFrame()", "pd.read_csv('x.csv')", "df.sort_values('a')",
      "df.a + df.b", "np.zeros(3)" }

PyInvalidSnippets == { "df.head(" }

\* Whether ast.parse accepts the text: known for the snippets above, either
\* way for any other text.
PyParsesChoices(text) ==
    IF text \in PyValidSnippets THEN {TRUE}
    ELSE IF text \in PyInvalidSnippets THEN {FALSE}
    ELSE BOOLEAN

(***************************************************************************)
(* Execution results.  A row sequence is kept as [n, keys]: its length and *)
(* the keys of its first row (<< >> when it is empty); cell values play no *)
(* part in what is modelled.                                               *)
(***************************************************************************)

Rows(n, keys) == [n |-> n, keys |-> IF n = 0 THEN << >> ELSE keys]

Min(a, b) == IF a < b THEN a ELSE b

\* (True, {"data": data, "columns": columns, "row_count": row_count})
ExecOk(data, columns, row_count) ==
    [success |-> TRUE, data |-> data, columns |-> columns, row_count |-> row_count,
     error |-> ""]

\* (False, str(e))
ExecErr(msg) ==
    [success |-> FALSE, data |-> Rows(0, << >>), columns |-> << >>, row_count |-> 0,
     error |-> msg]

\* What the relational backend may do with a statement: fail (connection
\* refused, syntax error), or return n rows of the columns selected.
SqlBackendOutcomes ==
    { [err |-> TRUE, n |-> 0] } \cup { [err |-> FALSE, n |-> n] : n \in BackendRowCounts }

\* SQLAgent.execute_query: fetchall, one dict per row, row_count = len(data).
SqlExecuteQuery(query, out) ==
    IF out.err THEN ExecErr("SQLAlchemyError")
    ELSE LET columns == << "x" >>
             data == Rows(out.n, columns)
         IN  ExecOk(data, columns, data.n)

\* What the document backend may hold: the collections of the database (none,
\* or some; the first listed is "users"), the number of documents the query
\* matches in a collection that exists, and whether the server fails.
MongoBackendOutcomes ==
    { [err |-> TRUE, collections |-> << >>, n |-> 0] }
    \cup { [err |-> FALSE, collections |-> << >>, n |-> 0] }
    \cup { [err |-> FALSE, collections |-> << "users", "orders" >>, n |-> n] :
             n \in BackendRowCounts }

\* Python truthiness of a JSON value.
JTruthy(v) ==
    CASE v.t = "null" -> FALSE
      [] v.t = "bool" -> v.n = 1
      [] v.t = "int" -> v.n # 0
      [] v.t = "float" -> TRUE
      [] v.t = "str" -> v.s # ""
      [] v.t \in {"arr", "obj"} -> v.kids # << >>

Abs(n) == IF n < 0 THEN -n ELSE n

\* The $limit values of the stages of an aggregate pipeline that are truthy.
PipelineLimits(pipeline) ==
    { JGet(pipeline.kids[i], "$limit", JNull).n :
        i \in { j \in 1..Len(pipeline.kids) :
                  JTruthy(JGet(pipeline.kids[j], "$limit", JNull)) } }

\* The least element of a non-empty set of numbers.
MinOf(S) == CHOOSE x \in S : \A y \in S : x <= y

\* Whether the collection exists on the database.
CollectionExists(out, name) ==
    \E i \in 1..Len(out.collections) : out.collections[i] = name

\* (True, {...}) for n documents with the keys.
MongoResult(n, keys) == ExecOk(Rows(n, keys), Rows(n, keys).keys, n)

\* MongoFind with no limit applied when the query sets none.
MongoFindNoDefault(limit, matched) ==
    IF JTruthy(limit) /\ limit.t \notin {"int", "bool"} THEN ExecErr("TypeError")
    ELSE MongoResult(IF JTruthy(limit) THEN Min(matched, Abs(limit.n)) ELSE matched,
                     << "_id", "a" >>)

\* execute_query, lines 160-172: find, limited by limit if limit else 100.
MongoFind(limit, matched) ==
    IF JTruthy(limit) /\ limit.t \notin {"int", "bool"} THEN ExecErr("TypeError")
    ELSE MongoResult(Min(matched, IF JTruthy(limit) THEN Abs(limit.n)
                                  ELSE MONGO_DEFAULT_LIMIT),
                     << "_id", "a" >>)

\* The documents the pipeline gives: a $limit stage is appended if it has none.
MongoAggregateLimited(limits, matched) ==
    IF limits = {} THEN MongoResult(Min(matched, MONGO_DEFAULT_LIMIT), << "_id", "a" >>)
    ELSE MongoResult(Min(matched, MinOf(limits)), << "_id", "a" >>)

\* execute_query, lines 174-181: aggregate.
MongoAggregate(pipeline, matched) ==
    IF \/ pipeline.t # "arr"
       \/ \E i \in 1..Len(pipeline.kids) : pipeline.kids[i].t # "obj"
    THEN ExecErr("AttributeError")
    ELSE MongoAggregateLimited(PipelineLimits(pipeline), matched)

\* execute_query, lines 160-195: the operation on the collection.
MongoOperation(operation, query_obj, matched) ==
    CASE operation = "find" ->
           MongoFind(JGet(query_obj, "limit", JNum(MONGO_DEFAULT_LIMIT)), matched)
      [] operation = "aggregate" ->
           MongoAggregate(JGet(query_obj, "pipeline", JArr(<< >>)), matched)
      [] operation = "count" -> MongoResult(1, << "count" >>)
      [] operation = "distinct" -> MongoResult(1, << "distinct_values", "count" >>)
      [] OTHER -> ExecErr("Unsupported operation: " \o operation)

\* execute_query, lines 148-158: the collection named by the query or the
\* datasource, else the first one listed.  A collection that is named but
\* does not exist is an empty collection to the driver.
MongoOnCollection(operation, query_obj, named, out) ==
    IF ~JTruthy(named) /\ out.collections = << >>
    THEN ExecErr("No collection specified or found")
    ELSE IF ~JTruthy(named)
    THEN MongoOperation(operation, query_obj, out.n)
    ELSE IF named.t # "str" THEN ExecErr("TypeError")
    ELSE MongoOperation(operation, query_obj,
                        IF CollectionExists(out, named.s) THEN out.n ELSE 0)

\* execute_query, lines 145-146, given the parsed query and its operation.
MongoExecuteParsed(query_obj, operation, collection_name, out) ==
    IF out.err THEN ExecErr("PyMongoError")
    ELSE IF query_obj.t # "obj" \/ operation.t # "str" THEN ExecErr("AttributeError")
    ELSE MongoOnCollection(ToLower(operation.s), query_obj,
                           JGet(query_obj, "collection", JStr(collection_name)), out)

MongoExecuteObject(query_obj, collection_name, out) ==
    MongoExecuteParsed(query_obj, JGet(query_obj, "operation", JStr("find")),
                       collection_name, out)

\* MongoAgent.execute_query.  collection_name: details["collection"] of the
\* datasource.
MongoExecuteQuery(query, collection_name, out) ==
    MongoExecuteObject(MongoParseQuery(query), collection_name, out)

\* SAFE_BUILTINS: the names of the allow-list.
SAFE_BUILTINS ==
    { "True", "False", "None", "len", "str", "int", "float", "bool", "list",
      "dict", "tuple", "sum", "min", "max", "abs", "round", "sorted",
      "reversed", "enumerate", "zip", "map", "filter", "range" }

\* _safe_eval, lines 163-167: the names bound in the namespace the snippet is
\* evaluated in.
SafeEvalNamespace == {"df", "pd"} \cup SAFE_BUILTINS

\* Words of Python that are not names.
PyKeywords == { "if", "else", "for", "in", "not", "and", "or", "is", "lambda" }

\* The end of the identifier that starts at i.
RECURSIVE NameEnd(_, _)
NameEnd(code, i) ==
    IF i < Len(code) /\ SubSeq(code, i + 1, i + 1) \in WordChars
    THEN NameEnd(code, i + 1) ELSE i

\* The first position at or after i that holds no blank.
RECURSIVE SkipBlanks(_, _)
SkipBlanks(code, i) ==
    IF i <= Len(code) /\ SubSeq(code, i, i) = " " THEN SkipBlanks(code, i + 1) ELSE i

\* Whether = (and not ==) stands at position k.
AssignsAt(code, k) ==
    /\ SubSeq(code, k, Min(Len(code), k)) = "="
    /\ SubSeq(code, k, Min(Len(code), k + 1)) # "=="

\* Whether the identifier code[i..j] is looked up as a name: it is not an
\* attribute (after a dot), a keyword argument or the target of an assignment
\* (before a single =), or a keyword.
IsNameLoad(code, i, j) ==
    /\ SubSeq(code, i, j) \notin PyKeywords
    /\ (i = 1 \/ SubSeq(code, i - 1, i - 1) # ".")
    /\ ~AssignsAt(code, SkipBlanks(code, j + 1))

\* The names a snippet looks up, scanning from i; quote is the quote character
\* of the string literal the scan is in, "" outside one.
RECURSIVE NamesFrom(_, _, _)
NamesFrom(code, i, quote) ==
    IF i > Len(code) THEN {}
    ELSE IF quote # ""
    THEN NamesFrom(code, i + 1, IF SubSeq(code, i, i) = quote THEN "" ELSE quote)
    ELSE IF SubSeq(code, i, i) \in {"'", "\""}
    THEN NamesFrom(code, i + 1, SubSeq(code, i, i))
    ELSE IF SubSeq(code, i, i) \in WordChars \ { SubSeq(Digits, d, d) : d \in 1..10 }
    THEN (IF IsNameLoad(code, i, NameEnd(code, i))
          THEN { SubSeq(code, i, NameEnd(code, i)) } ELSE {})
         \cup NamesFrom(code, NameEnd(code, i) + 1, "")
    ELSE IF SubSeq(code, i, i) \in WordChars
    THEN NamesFrom(code, NameEnd(code, i) + 1, "")
    ELSE NamesFrom(code, i + 1, "")

\* The names the snippet looks up when it is evaluated.
NamesUsed(code) == NamesFrom(code, 1, "")

\* str.endswith(p)
EndsWith(s, p) == Len(s) >= Len(p) /\ SubSeq(s, Len(s) - Len(p) + 1, Len(s)) = p

PandasValueKinds ==
    {"DataFrame", "Series", "UnnamedSeries", "ListOfDicts", "List", "scalar", "dict", "other"}

\* The shapes of value the snippet may give on a file of n rows, as pandas
\* defines its operations; any shape for a snippet that is not listed.
PandasValues(code, n) ==
    CASE EndsWith(code, ".head()") -> { [kind |-> "DataFrame", n |-> Min(n, 5)] }
      [] EndsWith(code, "inplace=True)") -> { [kind |-> "other", n |-> 1] }
      [] StartsWith(code, "pd.read_csv(") -> { [kind |-> "DataFrame", n |-> n] }
      [] EndsWith(code, ".sort_values('a')") -> { [kind |-> "DataFrame", n |-> n] }
      [] code = "df.a + df.b" -> { [kind |-> "UnnamedSeries", n |-> n] }
      [] OTHER -> { [kind |-> k, n |-> IF k \in {"scalar", "dict", "other"} THEN 1 ELSE n] :
                      k \in PandasValueKinds }

\* What _load_dataframe and _safe_eval may give for a snippet: an exception
\* (the file cannot be loaded, the operation fails), always so when the
\* snippet looks up a name the namespace does not bind (NameError), or else a
\* value of one of the shapes execute_query tells apart, n long.
PandasEvalOutcomes(code) ==
    { [kind |-> "raise", n |-> 0] }
    \cup IF NamesUsed(code) \subseteq SafeEvalNamespace
         THEN UNION { PandasValues(code, n) : n \in BackendRowCounts }
         ELSE {}

\* PandasExecuteQuery with every row of the result converted.
PandasExecuteQueryUncut(query, out) ==
    CASE out.kind = "raise" -> ExecErr("Exception")
      [] out.kind = "DataFrame" ->
           ExecOk(Rows(out.n, << "a", "b" >>), << "a", "b" >>, out.n)
      [] out.kind = "Series" ->
           ExecOk(Rows(out.n, << "a" >>), << "a" >>, out.n)
      [] out.kind = "UnnamedSeries" ->
           ExecOk(Rows(out.n, << "0" >>), << "value" >>, out.n)
      [] out.kind \in {"scalar", "other"} ->
           ExecOk(Rows(1, << "result" >>), << "result" >>, 1)
      [] out.kind = "dict" ->
           ExecOk(Rows(1, << "a", "b" >>), << "a", "b" >>, 1)
      [] out.kind = "ListOfDicts" /\ out.n > 0 ->
           ExecOk(Rows(out.n, << "a", "b" >>), << "a", "b" >>, out.n)
      [] OTHER ->
           ExecOk(Rows(out.n, << "value" >>), << "value" >>, out.n)

\* PandasAgent.execute_query: the conversion of the result to rows.
PandasExecuteQuery(query, out) ==
    LET capped == Min(out.n, PANDAS_ROW_CAP)
    IN  CASE out.kind = "raise" -> ExecErr("Exception")
          [] out.kind = "DataFrame" ->
               ExecOk(Rows(capped, << "a", "b" >>), << "a", "b" >>, out.n)
          [] out.kind = "Series" ->
               ExecOk(Rows(capped, << "a" >>), << "a" >>, out.n)
          [] out.kind = "UnnamedSeries" ->
               ExecOk(Rows(capped, << "0" >>), << "value" >>, out.n)
          [] out.kind \in {"scalar", "other"} ->
               ExecOk(Rows(1, << "result" >>), << "result" >>, 1)
          [] out.kind = "dict" ->
               ExecOk(Rows(1, << "a", "b" >>), << "a", "b" >>, 1)
          [] out.kind = "ListOfDicts" /\ out.n > 0 ->
               ExecOk(Rows(capped, << "a", "b" >>), << "a", "b" >>, out.n)
          [] OTHER ->
               ExecOk(Rows(capped, << "value" >>), << "value" >>, out.n)

(***************************************************************************)
(* BaseAgent.process and AIRouter: the outcome of a request.               *)
(***************************************************************************)

\* The dict BaseAgent.process returns; a key it does not set is None.
ProcessResult(success, generated_query, exec, error, llm_used) ==
    [success |-> success, generated_query |-> generated_query,
     results   |-> IF success THEN Some(exec.data) ELSE None,
     columns   |-> IF success THEN Some(exec.columns) ELSE None,
     row_count |-> IF success THEN Some(exec.row_count) ELSE None,
     error |-> error, llm_used |-> llm_used]

\* GenerationFailed naming the primary tier whatever generate_query said.
GenerationFailedPrimaryNamed(llm_used) ==
    ProcessResult(FALSE, None, ExecErr(""),
                  Some("Failed to generate query from natural language"), "ollama")

\* process, lines 144-149: nothing was generated.
GenerationFailed(llm_used) ==
    ProcessResult(FALSE, None, ExecErr(""),
                  Some("Failed to generate query from natural language"), llm_used)

\* process, lines 153-159: the validator said no.
ValidationFailed(generated_query, validation_error, llm_used) ==
    ProcessResult(FALSE, Some(generated_query), ExecErr(""),
                  Some("Query validation failed: " \o validation_error), llm_used)

\* Executed with the error key set on both branches.
ExecutedErrorAlways(generated_query, exec, llm_used) ==
    ProcessResult(exec.success, Some(generated_query), exec, Some(exec.error), llm_used)

\* process, lines 164-179: the outcome of execute_query.
Executed(generated_query, exec, llm_used) ==
    IF exec.success
    THEN ProcessResult(TRUE, Some(generated_query), exec, None, llm_used)
    ELSE ProcessResult(FALSE, Some(generated_query), exec, Some(exec.error), llm_used)

\* No response yet.
NoResponse ==
    [kind |-> "none", success |-> FALSE, generated_query |-> "", datasource_type |-> "",
     results |-> None, columns |-> None, row_count |-> None, error |-> None,
     llm_used |-> ""]

\* QueryResponse(success=False, generated_query="", error=..., llm_used="none")
FailureResponse(datasource_type, error) ==
    [kind |-> "query", success |-> FALSE, generated_query |-> "",
     datasource_type |-> datasource_type,
     results |-> None, columns |-> None, row_count |-> None, error |-> Some(error),
     llm_used |-> "none"]

\* route_query, lines 108-118: the QueryResponse built from process's dict.
ResponseOf(result, datasource_enum) ==
    [kind |-> "query", success |-> result.success,
     generated_query |-> IF IsNone(result.generated_query) THEN ""
                         ELSE result.generated_query[1],
     datasource_type |-> datasource_enum,
     results |-> result.results, columns |-> result.columns,
     row_count |-> result.row_count, error |-> result.error,
     llm_used |-> result.llm_used]

\* The dict get_schema_info returns: {"error": ...} or {"type": ..., ...}.
SchemaResponse(type, error) ==
    [kind |-> "schema", success |-> IsNone(error), generated_query |-> "",
     datasource_type |-> type,
     results |-> None, columns |-> None, row_count |-> None, error |-> error,
     llm_used |-> ""]

(***************************************************************************)
(* State.                                                                  *)
(***************************************************************************)

\* The requests that may be in flight together.
Reqs == {1, 2}

VARIABLES
    llm_used,   \* BaseAgent.llm_used of each agent of the router
    pc,         \* where each request is
    open_clients, \* clients and engines each request created and did not close
    req,        \* each request's arguments: datasource_id, user_id
    ctx,        \* schema_context in generate_query
    gen,        \* (generated_query, llm_used) in process
    resp,       \* the response returned to the caller
    trace,      \* the agent operations invoked for the request, in order
    vkind,      \* validator under test: the agent it belongs to
    vword,      \* validator under test: the word the texts are built around
    vtext,      \* validator under test: the text
    vcount,     \* validator under test: pieces of text put together so far
    vverdict,   \* validator under test: the verdict, once validated
    vagain,     \* validator under test: the verdict of a second call on the text
    vbackend,   \* execute_query under test: what the backend holds
    vresult     \* execute_query under test: what it returned

agentVars == << llm_used >>

reqVars == << pc, open_clients, req, ctx, gen, resp, trace >>

valVars == << vkind, vword, vtext, vcount, vverdict, vagain, vbackend, vresult >>

execVars == << vbackend, vresult >>

vars == << llm_used, pc, open_clients, req, ctx, gen, resp, trace, vkind, vword, vtext, vcount, vverdict, vagain,
          vbackend, vresult >>

NoRequest == [datasource_id |-> "", user_id |-> ""]

NoGen == [generated_query |-> None, llm_used |-> "none"]

\* One agent operation invoked: its name, the text it was given or gave, and
\* whether it succeeded.
Event(op, text, ok) == [op |-> op, text |-> text, ok |-> ok]

\* No verdict yet.
NoVerdict == [ok |-> FALSE, reason |-> "", raised |-> FALSE, done |-> FALSE]

Done(v) == [ok |-> v.ok, reason |-> v.reason, raised |-> v.raised, done |-> TRUE]

\* AIRouter.__init__ and BaseAgent.__init__; no request yet.
InitRouter ==
    /\ llm_used = [a \in Agents |-> "ollama"]
    /\ pc = [r \in Reqs |-> "idle"]
    /\ open_clients = [r \in Reqs |-> 0]
    /\ req = [r \in Reqs |-> NoRequest]
    /\ ctx = [r \in Reqs |-> ""]
    /\ gen = [r \in Reqs |-> NoGen]
    /\ resp = [r \in Reqs |-> NoResponse]
    /\ trace = [r \in Reqs |-> << >>]

\* No validator under test.
InitNoValidator ==
    /\ vkind = "none"
    /\ vword = ""
    /\ vtext = ""
    /\ vcount = 0
    /\ vverdict = NoVerdict
    /\ vagain = NoVerdict
    /\ vbackend = [err |-> FALSE, collections |-> << >>, n |-> 0]
    /\ vresult = ExecErr("")

\* The datasource record of request r (when its identifier resolves).
DatasourceOf(r) == Registry[req[r].datasource_id]

\* The agent serving request r (when its datasource type has one).
AgentOf(r) == GetAgent(DatasourceOf(r).type)[1]

Respond(r, response) ==
    /\ resp' = [resp EXCEPT ![r] = response]
    /\ pc' = [pc EXCEPT ![r] = "done"]

Log(r, event) == trace' = [trace EXCEPT ![r] = Append(@, event)]

(***************************************************************************)
(* AIRouter.route_query and BaseAgent.process, step by step.               *)
(***************************************************************************)

\* RouteQuery without the comparison of the owner with the requester.
RouteQueryOwnerUnchecked(r) ==
    /\ pc[r] = "idle"
    /\ \E datasource_id \in DatasourceIds, user_id \in Users :
        LET datasource == GetDatasourceById(datasource_id)
        IN  /\ req' = [req EXCEPT ![r] = [datasource_id |-> datasource_id,
                                          user_id |-> user_id]]
            /\ IF IsNone(datasource)
               THEN Respond(r, FailureResponse("sql", "Datasource not found"))
               ELSE IF IsNone(GetAgent(datasource[1].type))
               THEN Respond(r, FailureResponse("sql",
                        "Unsupported datasource type: " \o datasource[1].type))
               ELSE /\ pc' = [pc EXCEPT ![r] = "schema_context"]
                    /\ UNCHANGED resp
    /\ UNCHANGED << llm_used, open_clients, ctx, gen, trace, valVars >>

\* route_query up to the call of agent.process: the datasource is resolved,
\* its owner compared with the requester, the agent selected.
RouteQuery(r) ==
    /\ pc[r] = "idle"
    /\ \E datasource_id \in DatasourceIds, user_id \in Users :
        LET datasource == GetDatasourceById(datasource_id)
        IN  /\ req' = [req EXCEPT ![r] = [datasource_id |-> datasource_id,
                                          user_id |-> user_id]]
            /\ IF IsNone(datasource)
               THEN Respond(r, FailureResponse("sql", "Datasource not found"))
               ELSE IF datasource[1].user_id # user_id
               THEN Respond(r, FailureResponse("sql", "Access denied to this datasource"))
               ELSE IF IsNone(GetAgent(datasource[1].type))
               THEN Respond(r, FailureResponse("sql",
                        "Unsupported datasource type: " \o datasource[1].type))
               ELSE /\ pc' = [pc EXCEPT ![r] = "schema_context"]
                    /\ UNCHANGED resp
    /\ UNCHANGED << llm_used, open_clients, ctx, gen, trace, valVars >>

\* get_schema_context of SQLAgent (engine created line 63, disposed line 88)
\* and MongoAgent (client created line 50, closed line 79): the close is the
\* last statement of the try block, so an exception after the creation goes
\* to the handler with the client or engine left as it is.  PandasAgent
\* opens none.  The number of clients and engines left open by the call.
SchemaContextLeavesOpen(a, reachable) ==
    IF a \in {"sql", "mongo"} /\ ~reachable THEN 1 ELSE 0

\* execute_query of SQLAgent (engine created line 124, disposed line 144) and
\* MongoAgent (client created line 142, closed line 197): every return of
\* (False, ...) leaves before the close: the early returns of lines 156 and
\* 195 and the two handlers.  PandasAgent opens none.
ExecuteLeavesOpen(a, exec) ==
    IF a \in {"sql", "mongo"} /\ ~exec.success THEN 1 ELSE 0

\* GetSchemaContext with the failure of the introspection raised to
\* route_query.
GetSchemaContextRaising(r) ==
    /\ pc[r] = "schema_context"
    /\ \E reachable \in BOOLEAN :
        /\ Log(r, Event("get_schema_context", "", reachable))
        /\ open_clients' = [open_clients EXCEPT
                              ![r] = @ + SchemaContextLeavesOpen(AgentOf(r), reachable)]
        /\ IF reachable
           THEN /\ ctx' = [ctx EXCEPT ![r] = "schema"]
                /\ pc' = [pc EXCEPT ![r] = "health"]
                /\ UNCHANGED resp
           ELSE /\ Respond(r, FailureResponse(GetDatasourceEnum(DatasourceOf(r).type),
                                              "Internal error: OperationalError"))
                /\ UNCHANGED ctx
    /\ UNCHANGED << llm_used, req, gen, valVars >>

\* generate_query, line 103: get_schema_context of the agent, which answers a
\* placeholder when the backend cannot be read.
GetSchemaContext(r) ==
    /\ pc[r] = "schema_context"
    /\ \E reachable \in BOOLEAN :
        /\ ctx' = [ctx EXCEPT ![r] = IF reachable THEN "schema"
                                     ELSE "Error extracting schema"]
        /\ Log(r, Event("get_schema_context", "", reachable))
        /\ open_clients' = [open_clients EXCEPT
                              ![r] = @ + SchemaContextLeavesOpen(AgentOf(r), reachable)]
    /\ pc' = [pc EXCEPT ![r] = "health"]
    /\ UNCHANGED << llm_used, req, gen, resp, valVars >>

\* CheckOllamaHealth with the answer of the probe not looked at.
CheckOllamaHealthIgnored(r) ==
    /\ pc[r] = "health"
    /\ \E alive \in BOOLEAN :
        /\ Log(r, Event("check_ollama_health", "", alive))
        /\ pc' = [pc EXCEPT ![r] = "ollama"]
    /\ UNCHANGED << llm_used, open_clients, req, ctx, gen, resp, valVars >>

\* generate_query, line 106: check_ollama_health.
CheckOllamaHealth(r) ==
    /\ pc[r] = "health"
    /\ \E alive \in BOOLEAN :
        /\ Log(r, Event("check_ollama_health", "", alive))
        /\ pc' = [pc EXCEPT ![r] = IF alive THEN "ollama" ELSE "groq"]
    /\ UNCHANGED << llm_used, open_clients, req, ctx, gen, resp, valVars >>

\* What a tier may return: None, the empty string, or an answer.
TierResults(a) == {None} \cup { Some(t) : t \in LlmAnswers[a] \cup {""} }

\* Optional[str] as a condition: not None and not empty.
Truthy(o) == ~IsNone(o) /\ o[1] # ""

\* process, lines 142-149, once generate_query has returned (generated_query,
\* tier): on to validation, or the generation failure.
AfterGenerate(r, generated_query, tier) ==
    /\ gen' = [gen EXCEPT ![r] = [generated_query |-> generated_query, llm_used |-> tier]]
    /\ IF Truthy(generated_query)
       THEN /\ pc' = [pc EXCEPT ![r] = "validate"]
            /\ UNCHANGED resp
       ELSE Respond(r, ResponseOf(GenerationFailed(tier),
                                  GetDatasourceEnum(DatasourceOf(r).type)))

\* generate_query, lines 107-111: the primary tier.
GenerateWithOllama(r) ==
    /\ pc[r] = "ollama"
    /\ \E result \in TierResults(AgentOf(r)) :
        IF Truthy(result)
        THEN /\ llm_used' = [llm_used EXCEPT ![AgentOf(r)] = "ollama"]
             /\ Log(r, Event("generate_with_ollama", result[1], TRUE))
             /\ AfterGenerate(r, Some(CleanGeneratedQuery(result[1])), "ollama")
        ELSE /\ Log(r, Event("generate_with_ollama", "", FALSE))
             /\ pc' = [pc EXCEPT ![r] = "groq"]
             /\ UNCHANGED << llm_used, gen, resp >>
    /\ UNCHANGED << open_clients, req, ctx, valVars >>

\* generate_query, lines 113-120: the fallback tier.
GenerateWithGroq(r) ==
    /\ pc[r] = "groq"
    /\ \E result \in TierResults(AgentOf(r)) :
        IF Truthy(result)
        THEN /\ llm_used' = [llm_used EXCEPT ![AgentOf(r)] = "groq"]
             /\ Log(r, Event("generate_with_groq", result[1], TRUE))
             /\ AfterGenerate(r, Some(CleanGeneratedQuery(result[1])), "groq")
        ELSE /\ Log(r, Event("generate_with_groq", "", FALSE))
             /\ AfterGenerate(r, None, "none")
             /\ UNCHANGED llm_used
    /\ UNCHANGED << open_clients, req, ctx, valVars >>

\* ValidateReadonly answering from what the agent remembers of an earlier call.
ValidateReadonlyRemembering(a, generated_query, parses) ==
    IF vverdict.done THEN [ok |-> FALSE, reason |-> "Seen before", raised |-> FALSE]
    ELSE CASE a = "sql" -> SqlValidateReadonly(generated_query)
           [] a = "mongo" -> MongoValidateReadonly(generated_query)
           [] a = "pandas" -> PandasValidateReadonly(generated_query, parses)

\* validate_readonly of agent a on the text; parses: see PandasValidateReadonly.
ValidateReadonly(a, generated_query, parses) ==
    CASE a = "sql" -> SqlValidateReadonly(generated_query)
      [] a = "mongo" -> MongoValidateReadonly(generated_query)
      [] a = "pandas" -> PandasValidateReadonly(generated_query, parses)

\* AfterValidate with is_valid not looked at.
AfterValidateVerdictIgnored(r, generated_query, v, datasource_enum) ==
    /\ Log(r, Event("validate_readonly", generated_query, v.ok))
    /\ IF v.raised
       THEN Respond(r, FailureResponse(datasource_enum, "Internal error: " \o v.reason))
       ELSE /\ pc' = [pc EXCEPT ![r] = "execute"]
            /\ UNCHANGED resp

\* process, lines 152-159: validation.  An exception of the validator leaves
\* process and is caught by route_query (lines 129-138).
AfterValidate(r, generated_query, v, datasource_enum) ==
    /\ Log(r, Event("validate_readonly", generated_query, v.ok))
    /\ IF v.raised
       THEN Respond(r, FailureResponse(datasource_enum, "Internal error: " \o v.reason))
       ELSE IF ~v.ok
       THEN Respond(r, ResponseOf(
                ValidationFailed(generated_query, v.reason, gen[r].llm_used),
                datasource_enum))
       ELSE /\ pc' = [pc EXCEPT ![r] = "execute"]
            /\ UNCHANGED resp

Validate(r) ==
    /\ pc[r] = "validate"
    /\ \E parses \in PyParsesChoices(gen[r].generated_query[1]) :
         AfterValidate(r, gen[r].generated_query[1],
                       ValidateReadonly(AgentOf(r), gen[r].generated_query[1], parses),
                       GetDatasourceEnum(DatasourceOf(r).type))
    /\ UNCHANGED << llm_used, open_clients, req, ctx, gen, valVars >>

\* What execute_query of agent a may return for the text.
ExecuteOutcomes(a, query, datasource) ==
    CASE a = "sql" -> { SqlExecuteQuery(query, out) : out \in SqlBackendOutcomes }
      [] a = "mongo" -> { MongoExecuteQuery(query, datasource.collection, out) :
                            out \in MongoBackendOutcomes }
      [] a = "pandas" -> { PandasExecuteQuery(query, out) : out \in PandasEvalOutcomes(Strip(query)) }

\* Execute reporting the tier from the agent's field llm_used.
ExecuteSharedTier(r) ==
    /\ pc[r] = "execute"
    /\ LET generated_query == gen[r].generated_query[1]
       IN  \E exec \in ExecuteOutcomes(AgentOf(r), generated_query, DatasourceOf(r)) :
            /\ Log(r, Event("execute_query", generated_query, exec.success))
            /\ Respond(r, ResponseOf(Executed(generated_query, exec, llm_used[AgentOf(r)]),
                                     GetDatasourceEnum(DatasourceOf(r).type)))
            /\ open_clients' = [open_clients EXCEPT
                                  ![r] = @ + ExecuteLeavesOpen(AgentOf(r), exec)]
    /\ UNCHANGED << llm_used, req, ctx, gen, valVars >>

\* Execute with a failed execution tried once more.
ExecuteRetried(r) ==
    /\ pc[r] = "execute"
    /\ LET generated_query == gen[r].generated_query[1]
       IN  \E exec \in ExecuteOutcomes(AgentOf(r), generated_query, DatasourceOf(r)) :
            /\ Log(r, Event("execute_query", generated_query, exec.success))
            /\ IF ~exec.success /\ Len(trace[r]) < 6
               THEN UNCHANGED << pc, resp >>
               ELSE Respond(r, ResponseOf(Executed(generated_query, exec, gen[r].llm_used),
                                          GetDatasourceEnum(DatasourceOf(r).type)))
            /\ open_clients' = [open_clients EXCEPT
                                  ![r] = @ + ExecuteLeavesOpen(AgentOf(r), exec)]
    /\ UNCHANGED << llm_used, req, ctx, gen, valVars >>

\* process, lines 162-179: execution, and the response built from it.
Execute(r) ==
    /\ pc[r] = "execute"
    /\ LET generated_query == gen[r].generated_query[1]
       IN  \E exec \in ExecuteOutcomes(AgentOf(r), generated_query, DatasourceOf(r)) :
            /\ Log(r, Event("execute_query", generated_query, exec.success))
            /\ Respond(r, ResponseOf(Executed(generated_query, exec, gen[r].llm_used),
                                     GetDatasourceEnum(DatasourceOf(r).type)))
            /\ open_clients' = [open_clients EXCEPT
                                  ![r] = @ + ExecuteLeavesOpen(AgentOf(r), exec)]
    /\ UNCHANGED << llm_used, req, ctx, gen, valVars >>

\* The response is returned to the caller; the next request may come.
Return(r) ==
    /\ pc[r] = "done"
    /\ pc' = [pc EXCEPT ![r] = "idle"]
    /\ req' = [req EXCEPT ![r] = NoRequest]
    /\ ctx' = [ctx EXCEPT ![r] = ""]
    /\ gen' = [gen EXCEPT ![r] = NoGen]
    /\ resp' = [resp EXCEPT ![r] = NoResponse]
    /\ trace' = [trace EXCEPT ![r] = << >>]
    /\ open_clients' = [open_clients EXCEPT ![r] = 0]
    /\ UNCHANGED << llm_used, valVars >>

\* AIRouter.get_schema_info, whole: the same checks, then the introspection of
\* the agent of the datasource's type (which answers empty when it fails).
GetSchemaInfo(r) ==
    /\ pc[r] = "idle"
    /\ \E datasource_id \in DatasourceIds, user_id \in Users :
        LET datasource == GetDatasourceById(datasource_id)
            type == datasource[1].type
        IN  /\ req' = [req EXCEPT ![r] = [datasource_id |-> datasource_id,
                                          user_id |-> user_id]]
            /\ IF IsNone(datasource)
               THEN /\ Respond(r, SchemaResponse("", Some("Datasource not found")))
                    /\ UNCHANGED trace
               ELSE IF datasource[1].user_id # user_id
               THEN /\ Respond(r, SchemaResponse("", Some("Access denied")))
                    /\ UNCHANGED trace
               ELSE IF type \in {"mysql", "psql"}
               THEN /\ \E ok \in BOOLEAN : Log(r, Event("get_tables_info", "", ok))
                    /\ Respond(r, SchemaResponse("sql", None))
               ELSE IF type = "mongo"
               THEN /\ \E ok \in BOOLEAN : Log(r, Event("get_collections_info", "", ok))
                    /\ Respond(r, SchemaResponse("mongo", None))
               ELSE IF type = "pandas"
               THEN /\ \E ok \in BOOLEAN : Log(r, Event("get_dataframe_info", "", ok))
                    /\ Respond(r, SchemaResponse("pandas", None))
               ELSE /\ Respond(r, SchemaResponse("",
                          Some("Unknown datasource type: " \o type)))
                    /\ UNCHANGED trace
    /\ UNCHANGED << llm_used, open_clients, ctx, gen, valVars >>

\* One step of request r.
Step(r) ==
    \/ RouteQuery(r)
    \/ GetSchemaInfo(r)
    \/ GetSchemaContext(r)
    \/ CheckOllamaHealth(r)
    \/ GenerateWithOllama(r)
    \/ GenerateWithGroq(r)
    \/ Validate(r)
    \/ Execute(r)
    \/ Return(r)

Init == InitRouter /\ InitNoValidator

\* Requests served one at a time.
Next == Step(1)

Spec == Init /\ [][Next]_vars

\* The datasources asked for when two requests are in flight together: one of
\* a type with an agent, and an identifier of no record.
SharedDatasourceIds == {"d_sql", "d_none"}

\* One step of request r among concurrent requests.  route_query and
\* process are coroutines on one event loop: a request runs alone between
\* two awaits, which is what each action of Step covers.
StepShared(r) ==
    /\ Step(r)
    /\ req'[r] = NoRequest \/ req'[r].datasource_id \in SharedDatasourceIds

\* Requests served together by the one router (ai_router) and its agents.
NextShared == \E r \in Reqs : StepShared(r)

SpecShared == Init /\ [][NextShared]_vars

(***************************************************************************)
(* SQLAgent.validate_readonly on texts put together from pieces: a keyword *)
(* of the denylist in one of three letter cases, the opening SELECT, a     *)
(* blank, a separator, a word character and a parenthesis.                 *)
(***************************************************************************)

\* Pieces a text is made of, at most.
MaxPieces == 3

\* First letter upper case, the rest lower case.
Capitalize(w) == ToUpper(Slice(w, 1, 1)) \o ToLower(Slice(w, 2, Len(w)))

\* The keywords of the denylist, each in upper, lower and mixed case.
SqlWords ==
    UNION { { SqlKeywordNames[k], ToLower(SqlKeywordNames[k]),
              Capitalize(SqlKeywordNames[k]) } : k \in 1..Len(SqlKeywordNames) }

\* What a text under test may begin as: nothing, or, for the keyword it
\* holds, a query with a second statement.
SqlSeeds(w) ==
    IF w = "DROP" THEN { "", "SELECT * FROM users; DROP TABLE users;" } ELSE { "" }

SqlPieces(w) == { w, "SELECT ", "with ", " ", ";", "x", "(" }

\* A keyword and a first text are picked.
SqlStart ==
    /\ vkind = "none"
    /\ \E w \in SqlWords :
        \E seed \in SqlSeeds(w) :
            /\ vkind' = "sql"
            /\ vword' = w
            /\ vtext' = seed
    /\ vcount' = 0
    /\ UNCHANGED << agentVars, reqVars, execVars, vverdict, vagain >>

\* The text grows by one piece.
SqlAppend ==
    /\ vkind = "sql"
    /\ ~vverdict.done
    /\ vcount < MaxPieces
    /\ \E p \in SqlPieces(vword) : vtext' = vtext \o p
    /\ vcount' = vcount + 1
    /\ UNCHANGED << agentVars, reqVars, execVars, vkind, vword, vverdict, vagain >>

\* validate_readonly is called on the text.
SqlValidate ==
    /\ vkind = "sql"
    /\ ~vverdict.done
    /\ vverdict' = Done(SqlValidateReadonly(vtext))
    /\ UNCHANGED << agentVars, reqVars, execVars, vkind, vword, vtext, vcount, vagain >>

NextSql == SqlStart \/ SqlAppend \/ SqlValidate

SpecSql == Init /\ [][NextSql]_vars

(***************************************************************************)
(* PandasAgent.validate_readonly on snippets put together from lines, each *)
(* a statement of its own, so that ast.parse accepts every snippet.        *)
(***************************************************************************)

PandasLines ==
    { "df = df.head()", "df = pd.DataFrame()", "df = 5", "df.head()",
      "result = df.describe()", "x = 1" }

\* A first line is picked.
PandasStart ==
    /\ vkind = "none"
    /\ \E line \in PandasLines : vtext' = line
    /\ vkind' = "pandas"
    /\ vcount' = 1
    /\ UNCHANGED << agentVars, reqVars, execVars, vword, vverdict, vagain >>

\* The snippet grows by one line.
PandasAppendLine ==
    /\ vkind = "pandas"
    /\ ~vverdict.done
    /\ vcount < MaxPieces
    /\ \E line \in PandasLines : vtext' = vtext \o "\n" \o line
    /\ vcount' = vcount + 1
    /\ UNCHANGED << agentVars, reqVars, execVars, vkind, vword, vverdict, vagain >>

\* validate_readonly is called on the snippet.
PandasValidate ==
    /\ vkind = "pandas"
    /\ ~vverdict.done
    /\ vverdict' = Done(PandasValidateReadonly(vtext, TRUE))
    /\ UNCHANGED << agentVars, reqVars, execVars, vkind, vword, vtext, vcount, vagain >>

NextPandas == PandasStart \/ PandasAppendLine \/ PandasValidate

SpecPandas == Init /\ [][NextPandas]_vars

(***************************************************************************)
(* BaseAgent._clean_generated_query on answers of a tier: a query wrapped, *)
(* in any order, in label prefixes and markdown fences.                    *)
(***************************************************************************)

\* Wrappings of a query, at most.
MaxWraps == 2

CleanQueries == { "SELECT 1", "df.head()", "{\"operation\":\"count\"}" }

\* The text wrapped once more: a label put before it, or a fence around it.
Wrapped(text) ==
    { prefixes_to_remove[k] \o " " \o text : k \in 1..Len(prefixes_to_remove) }
    \cup { Fence \o "sql\n" \o text \o "\n" \o Fence,
           Fence \o "\n" \o text \o "\n" \o Fence }

\* A tier answers a bare query.
CleanStart ==
    /\ vkind = "none"
    /\ \E q \in CleanQueries : vtext' = q
    /\ vkind' = "clean"
    /\ vcount' = 0
    /\ UNCHANGED << agentVars, reqVars, execVars, vword, vverdict, vagain >>

\* The answer carries one more wrapping.
CleanWrap ==
    /\ vkind = "clean" /\ vcount < MaxWraps
    /\ \E t \in Wrapped(vtext) : vtext' = t
    /\ vcount' = vcount + 1
    /\ UNCHANGED << agentVars, reqVars, execVars, vkind, vword, vverdict, vagain >>

\* generate_query, lines 111 and 118: the answer is cleaned; the cleaned text
\* is what process hands to validate_readonly.
CleanAnswer ==
    /\ vkind = "clean"
    /\ vtext' = CleanGeneratedQuery(vtext)
    /\ vkind' = "cleaned"
    /\ UNCHANGED << agentVars, reqVars, execVars, vword, vcount, vverdict, vagain >>

NextClean == CleanStart \/ CleanWrap \/ CleanAnswer

SpecClean == Init /\ [][NextClean]_vars

(***************************************************************************)
(* MongoAgent.execute_query on find and aggregate queries, with and        *)
(* without a limit and a collection name, against what the database may    *)
(* hold.                                                                   *)
(***************************************************************************)

MongoQueryBodies ==
    { "\"operation\":\"find\",\"filter\":{}",
      "\"operation\":\"find\",\"filter\":{},\"limit\":null",
      "\"operation\":\"find\",\"filter\":{},\"limit\":5",
      "\"operation\":\"find\",\"filter\":{},\"limit\":1001",
      "\"operation\":\"aggregate\",\"pipeline\":[]",
      "\"operation\":\"aggregate\",\"pipeline\":[{\"$limit\":3}]" }

\* The collection the query names: none, one that exists, one that does not.
MongoCollectionParts ==
    { "", ",\"collection\":\"users\"", ",\"collection\":\"ghost\"" }

\* details["collection"] of the datasource: none, one that exists, one that
\* does not.
MongoDatasourceCollections == { "", "orders", "ghost" }

\* A query and a datasource are picked; vword is the datasource's collection.
MongoExecStart ==
    /\ vkind = "none"
    /\ \E body \in MongoQueryBodies, part \in MongoCollectionParts :
         vtext' = "{" \o body \o part \o "}"
    /\ \E c \in MongoDatasourceCollections : vword' = c
    /\ vkind' = "mongo_execute"
    /\ UNCHANGED << agentVars, reqVars, execVars, vcount, vverdict, vagain >>

\* execute_query runs the query against the backend.
MongoExecute ==
    /\ vkind = "mongo_execute"
    /\ \E out \in MongoBackendOutcomes :
         /\ vbackend' = out
         /\ vresult' = MongoExecuteQuery(vtext, vword, out)
    /\ vkind' = "mongo_executed"
    /\ UNCHANGED << agentVars, reqVars, vword, vtext, vcount, vverdict, vagain >>

NextMongoExec == MongoExecStart \/ MongoExecute

SpecMongoExec == Init /\ [][NextMongoExec]_vars

(***************************************************************************)
(* validate_readonly of each agent called twice on one text: the answers   *)
(* and cleaned answers of the tiers for the relational and the document    *)
(* agent, the one-line snippets for the tabular agent.                     *)
(***************************************************************************)

\* The answers of the tiers, raw and cleaned, and each in upper and in lower
\* case.
ValidatorTexts(a) ==
    LET answers == LlmAnswers[a] \cup { CleanGeneratedQuery(t) : t \in LlmAnswers[a] }
    IN  answers \cup { ToUpper(t) : t \in answers } \cup { ToLower(t) : t \in answers }

\* A text is picked for the relational or the document validator.
ValidatorStart ==
    /\ vkind = "none"
    /\ \E a \in {"sql", "mongo"} :
         /\ vkind' = a
         /\ \E t \in ValidatorTexts(a) : vtext' = t
    /\ vcount' = 1
    /\ UNCHANGED << agentVars, reqVars, execVars, vword, vverdict, vagain >>

\* validate_readonly is called on the text.
ValidatorValidate ==
    /\ vkind \in {"sql", "mongo"} /\ ~vverdict.done
    /\ vverdict' = Done(ValidateReadonly(vkind, vtext, TRUE))
    /\ UNCHANGED << agentVars, reqVars, execVars, vkind, vword, vtext, vcount, vagain >>

\* validate_readonly is called a second time on the text.
ValidateAgain ==
    /\ vkind \in Agents /\ vverdict.done /\ ~vagain.done
    /\ vagain' = Done(ValidateReadonly(vkind, vtext, TRUE))
    /\ UNCHANGED << agentVars, reqVars, execVars, vkind, vword, vtext, vcount, vverdict >>

NextValidators ==
    \/ ValidatorStart
    \/ ValidatorValidate
    \/ PandasStart
    \/ PandasValidate
    \/ ValidateAgain

SpecValidators == Init /\ [][NextValidators]_vars

(***************************************************************************)
(* Properties of BaseAgent.process and AIRouter.                           *)
(***************************************************************************)

GenerationOps == {"generate_with_ollama", "generate_with_groq"}

\* The events of request r in which the operation was invoked.
EventsOf(r, op) == { i \in 1..Len(trace[r]) : trace[r][i].op = op }

\* Event i of request r is the answer of a tier that generate_query returned,
\* cleaned, as the text.
GeneratedAt(r, i, text) ==
    /\ trace[r][i].op \in GenerationOps
    /\ trace[r][i].ok
    /\ CleanGeneratedQuery(trace[r][i].text) = text
    /\ \A j \in (i + 1)..Len(trace[r]) : trace[r][j].op \notin GenerationOps

\* C1: within one process call validate_readonly is invoked only after
\* generate_query has returned, on the text it returned, and execute_query
\* only right after validate_readonly passed that very text; nothing that
\* failed validation or was not validated is executed.
C1_GenerateValidateExecute ==
    \A r \in Reqs :
        /\ \A i \in EventsOf(r, "validate_readonly") :
             \E j \in 1..(i - 1) : GeneratedAt(r, j, trace[r][i].text)
        /\ \A i \in EventsOf(r, "execute_query") :
             /\ i > 1
             /\ trace[r][i - 1].op = "validate_readonly"
             /\ trace[r][i - 1].ok
             /\ trace[r][i - 1].text = trace[r][i].text
             /\ Cardinality(EventsOf(r, "execute_query")) = 1
             /\ Cardinality(EventsOf(r, "validate_readonly")) = 1

\* A request was generated, validated and executed, in this order.
C1_Witness ==
    \E r \in Reqs :
        /\ pc[r] = "done"
        /\ Len(trace[r]) >= 3
        /\ trace[r][Len(trace[r])].op = "execute_query"
        /\ trace[r][Len(trace[r]) - 1] = Event("validate_readonly", "SELECT x FROM t", TRUE)
        /\ trace[r][Len(trace[r]) - 2] =
               Event("generate_with_groq", "~~~sql\nSELECT x FROM t\n~~~", TRUE)

\* Request r names a datasource that exists and that its requester owns.
Authorized(r) ==
    /\ req[r].datasource_id \in DOMAIN Registry
    /\ Registry[req[r].datasource_id].user_id = req[r].user_id

\* The error of the response of request r, "" when it has none.
ErrorOf(r) == IF IsNone(resp[r].error) THEN "" ELSE resp[r].error[1]

\* C2: no operation of an agent is invoked for a request unless its
\* datasource exists and is owned by the requester; a datasource that does not
\* exist is answered "not found", one owned by somebody else "access denied".
C2_OwnerOnly ==
    \A r \in Reqs :
        /\ trace[r] # << >> => Authorized(r)
        /\ pc[r] = "done" /\ req[r].datasource_id \notin DOMAIN Registry =>
             /\ ~resp[r].success
             /\ ErrorOf(r) = "Datasource not found"
        /\ pc[r] = "done" /\ req[r].datasource_id \in DOMAIN Registry /\ ~Authorized(r) =>
             /\ ~resp[r].success
             /\ StartsWith(ErrorOf(r), "Access denied")

\* A query on a datasource of another user was answered "access denied"
\* with no operation of an agent invoked.
C2_Witness ==
    \E r \in Reqs :
        /\ pc[r] = "done"
        /\ req[r] = [datasource_id |-> "d_sql", user_id |-> "u2"]
        /\ resp[r].kind = "query"
        /\ ErrorOf(r) = "Access denied to this datasource"
        /\ trace[r] = << >>

\* C3: a QueryResponse has results, columns and row_count and no error when
\* it is a success, and an error and none of the three when it is not.
C3_ResponseConsistent ==
    \A r \in Reqs :
        resp[r].kind = "query" =>
            IF resp[r].success
            THEN /\ ~IsNone(resp[r].results)
                 /\ ~IsNone(resp[r].columns)
                 /\ ~IsNone(resp[r].row_count)
                 /\ IsNone(resp[r].error)
            ELSE /\ IsNone(resp[r].results)
                 /\ IsNone(resp[r].columns)
                 /\ IsNone(resp[r].row_count)
                 /\ ~IsNone(resp[r].error)

\* A query was executed and answered with rows.
C3_Witness ==
    \E r \in Reqs :
        /\ resp[r].kind = "query"
        /\ resp[r].success
        /\ resp[r].results = Some(Rows(3, << "_id", "a" >>))
        /\ resp[r].row_count = Some(3)

\* C4: whatever the text asks for, execute_query of no agent returns more
\* rows than a fixed cap (here the largest cap any agent applies).
C4_HardRowCap ==
    \A r \in Reqs :
        resp[r].kind = "query" /\ resp[r].success =>
            resp[r].results[1].n <= PANDAS_ROW_CAP

\* Whether sub occurs in s.
Contains(s, sub) ==
    \E i \in 1..(Len(s) - Len(sub) + 1) : SubSeq(s, i, i + Len(sub) - 1) = sub

\* The text is JSON and names none of the four operations: it is no object,
\* or has no operation, or one that is no string or not one of the four.
JsonWithoutAllowedOperation(text) ==
    /\ JsonLoads(text).ok
    /\ ~ /\ JsonLoads(text).v.t = "obj"
         /\ JHas(JsonLoads(text).v, "operation")
         /\ JGet(JsonLoads(text).v, "operation", JNull).t = "str"
         /\ ToLower(JGet(JsonLoads(text).v, "operation", JNull).s) \in MongoAllowedOperations

\* C8: for a JSON text that names none of the four operations the document
\* validator returns a verdict of rejection; it does not raise.
C8_UnknownOperationRejected ==
    \A r \in Reqs :
        /\ pc[r] = "done"
        /\ trace[r] # << >>
        /\ trace[r][Len(trace[r])].op = "validate_readonly"
        /\ AgentOf(r) = "mongo"
        /\ JsonWithoutAllowedOperation(trace[r][Len(trace[r])].text)
        => StartsWith(ErrorOf(r), "Query validation failed")

\* A forbidden operation name stands in the text as a quoted token (a JSON
\* key or value) or before a parenthesis (a method call), in any letter case.
ForbiddenMongoToken(text) ==
    \E k \in 1..Len(FORBIDDEN_MONGO_OPERATIONS) :
        \/ Contains(ToLower(text), "\"" \o FORBIDDEN_MONGO_OPERATIONS[k] \o "\"")
        \/ Contains(ToLower(text), FORBIDDEN_MONGO_OPERATIONS[k] \o "(")

\* C9: the document validator rejects every text in which a forbidden
\* operation name is a JSON key, a JSON value or a method call.
C9_ForbiddenTokenRejected ==
    \A r \in Reqs :
        \A i \in EventsOf(r, "validate_readonly") :
            AgentOf(r) = "mongo" /\ ForbiddenMongoToken(trace[r][i].text)
            => ~trace[r][i].ok

\* The snippet calls for a capability of the denylist: a write to disk, an
\* import, a mutation in place.
DenylistedCapability(text) ==
    \/ Contains(text, ".to_csv(")
    \/ Contains(text, "import ")
    \/ Contains(text, "inplace=True")

\* C10: the tabular validator rejects every snippet that calls for a
\* capability of the denylist, and process never executes such a snippet.
C10_DenylistedSnippetNotExecuted ==
    \A r \in Reqs :
        \A i \in 1..Len(trace[r]) :
            AgentOf(r) = "pandas" /\ DenylistedCapability(trace[r][i].text) =>
                /\ trace[r][i].op = "validate_readonly" => ~trace[r][i].ok
                /\ trace[r][i].op # "execute_query"

(***************************************************************************)
(* Properties of SQLAgent.validate_readonly.                               *)
(***************************************************************************)

\* Whether the word w stands in the text at i in some letter case, with no
\* word character on either side.
WholeWordAt(text, w, i) ==
    /\ i + Len(w) - 1 <= Len(text)
    /\ (i = 1 \/ Ch(text, i - 1) \notin WordChars)
    /\ (i + Len(w) > Len(text) \/ Ch(text, i + Len(w)) \notin WordChars)
    /\ ToUpper(SubSeq(text, i, i + Len(w) - 1)) = ToUpper(w)

HasWholeWord(text, w) == \E i \in 1..Len(text) : WholeWordAt(text, w, i)

\* A validator was run on the text under test.
Validated(kind) == vkind = kind /\ vverdict.done

\* C5: the relational validator rejects every text that holds a keyword of
\* the denylist as a whole word, in any letter case and at any position.
C5_DenylistedKeywordRejected ==
    Validated("sql") =>
        \A k \in 1..Len(SqlKeywordNames) :
            HasWholeWord(vtext, SqlKeywordNames[k]) => ~vverdict.ok

\* A keyword not in upper case, in the middle of a query that opens with
\* SELECT, was rejected as a forbidden keyword.
C5_Witness ==
    /\ Validated("sql")
    /\ vword # ToUpper(vword)
    /\ vtext = "SELECT " \o vword \o "("
    /\ HasWholeWord(vtext, vword)
    /\ vverdict = Done(Verdict(FALSE, "Forbidden keyword detected: " \o ToUpper(vword)))

\* Whether the text, after its leading blanks, goes on with the word w in
\* some letter case.
OpensWith(text, w) ==
    \E i \in 1..Len(text) :
        /\ \A j \in 1..(i - 1) : Ch(text, j) \in Whitespace
        /\ Ch(text, i) \notin Whitespace
        /\ i + Len(w) - 1 <= Len(text)
        /\ ToUpper(SubSeq(text, i, i + Len(w) - 1)) = w

StatementStarts(text) ==
    { a \in 1..Len(text) :
        /\ (a = 1 \/ Ch(text, a - 1) = ";")
        /\ \E j \in a..Len(text) :
            /\ Ch(text, j) \notin Whitespace \cup {";"}
            /\ \A m \in a..j : Ch(text, m) # ";" }

SqlScenario == "SELECT * FROM users; DROP TABLE users;"

\* C7: the relational validator rejects every text of two or more statements;
\* the scenario text is rejected for its statements or for a keyword; a text
\* of one statement is not rejected for its statements, whatever separators
\* follow it.
C7_MultipleStatementsRejected ==
    Validated("sql") =>
        /\ Cardinality(StatementStarts(vtext)) >= 2 => ~vverdict.ok
        /\ vtext = SqlScenario =>
             /\ ~vverdict.ok
             /\ \/ vverdict.reason = "Multiple statements not allowed"
                \/ StartsWith(vverdict.reason, "Forbidden keyword detected")
        /\ Cardinality(StatementStarts(vtext)) <= 1 =>
             vverdict.reason # "Multiple statements not allowed"

\* Two statements, neither with a keyword of the denylist, were rejected for
\* being two.
C7_Witness ==
    /\ Validated("sql")
    /\ vtext = "SELECT ;x"
    /\ vverdict = Done(Verdict(FALSE, "Multiple statements not allowed"))

(***************************************************************************)
(* Properties of PandasAgent.validate_readonly and execute_query.          *)
(***************************************************************************)

\* The line assigns to df something that does not start from df itself.
ReassignsHandle(line) ==
    /\ SubSeq(line, 1, Min(Len(line), 5)) = "df = "
    /\ SubSeq(line, 1, Min(Len(line), 8)) # "df = df."

\* C11: the tabular validator rejects every snippet one of whose lines
\* reassigns df to something not derived from df, whatever its other lines.
C11_ReassignmentRejected ==
    Validated("pandas") =>
        ((\E i \in 1..Len(Split(vtext, "\n")) : ReassignsHandle(Split(vtext, "\n")[i]))
            => ~vverdict.ok)

\* A snippet of the tabular agent was executed and gave a result, as event i
\* of request r.
PandasExecutedAt(r, i) ==
    /\ AgentOf(r) = "pandas"
    /\ trace[r][i].op = "execute_query"
    /\ trace[r][i].ok

\* C12: a snippet that executes reaches no name but the tabular handle df and
\* the safe built-ins: a snippet that gave a result looked up no other name.
C12_OnlyHandleAndBuiltinsBound ==
    \A r \in Reqs :
        \A i \in 1..Len(trace[r]) :
            PandasExecutedAt(r, i) =>
                NamesUsed(Strip(trace[r][i].text)) \subseteq {"df"} \cup SAFE_BUILTINS


\* C26: execute_query of the tabular agent returns at most 1000 rows in data,
\* whatever the snippet computed.
C26_TabularRowsCapped ==
    \A r \in Reqs :
        pc[r] = "done" /\ resp[r].kind = "query" /\ resp[r].success
            /\ AgentOf(r) = "pandas"
        => resp[r].results[1].n <= PANDAS_ROW_CAP

\* A snippet computed more rows than the cap and the cap's worth was returned.
C26_Witness ==
    \E r \in Reqs :
        /\ pc[r] = "done" /\ resp[r].kind = "query" /\ resp[r].success
        /\ AgentOf(r) = "pandas"
        /\ resp[r].row_count[1] > PANDAS_ROW_CAP
        /\ resp[r].results[1].n = PANDAS_ROW_CAP

(***************************************************************************)
(* Properties of the execution result of every agent.                      *)
(***************************************************************************)

\* Request r ended with the result of an execution.
ExecutionResultOf(r) ==
    /\ pc[r] = "done"
    /\ resp[r].kind = "query"
    /\ resp[r].success

\* C13: in every execution result, of any agent, row_count is the length of
\* the row sequence data, also when the tabular result was cut at the row cap.
C13_RowCountIsLength ==
    \A r \in Reqs :
        ExecutionResultOf(r) => resp[r].row_count[1] = resp[r].results[1].n

\* C14: in every execution result, of any agent, columns is the list of the
\* keys of the first row, and is empty when there is no row.
C14_ColumnsAreFirstRowKeys ==
    \A r \in Reqs :
        ExecutionResultOf(r) => resp[r].columns[1] = resp[r].results[1].keys

(***************************************************************************)
(* Properties of BaseAgent.generate_query: the two tiers.                  *)
(***************************************************************************)

\* The events of request r of the operation with the outcome ok.
EventsWith(r, op, ok) == { i \in EventsOf(r, op) : trace[r][i].ok = ok }

\* The primary was unreachable, or reached and returned nothing.
PrimaryGaveNothing(r) ==
    \/ EventsWith(r, "check_ollama_health", FALSE) # {}
    \/ EventsWith(r, "generate_with_ollama", FALSE) # {}

\* generate_query of request r has returned.
GenerationOver(r) ==
    /\ pc[r] \in {"validate", "execute", "done"}
    /\ EventsOf(r, "check_ollama_health") # {}

\* C15: the primary is asked only after the probe reported it alive; the
\* fallback is asked exactly when the primary was unreachable or returned
\* nothing, never after a non-empty primary result; no tier is asked twice in
\* a request.
C15_PrimaryFallbackProtocol ==
    \A r \in Reqs :
        /\ \A i \in EventsOf(r, "generate_with_ollama") :
             \E j \in EventsWith(r, "check_ollama_health", TRUE) : j < i
        /\ EventsOf(r, "generate_with_groq") # {} => PrimaryGaveNothing(r)
        /\ GenerationOver(r) /\ PrimaryGaveNothing(r) => EventsOf(r, "generate_with_groq") # {}
        /\ EventsWith(r, "generate_with_ollama", TRUE) # {} => EventsOf(r, "generate_with_groq") = {}
        /\ Cardinality(EventsOf(r, "generate_with_ollama")) <= 1
        /\ Cardinality(EventsOf(r, "generate_with_groq")) <= 1

\* The primary was alive and returned nothing, and the fallback answered.
C15_Witness ==
    \E r \in Reqs :
        /\ GenerationOver(r)
        /\ EventsWith(r, "check_ollama_health", TRUE) # {}
        /\ EventsWith(r, "generate_with_ollama", FALSE) # {}
        /\ EventsWith(r, "generate_with_groq", TRUE) # {}

\* Request r ended with the generation failure of process.
GenerationFailureOf(r) ==
    /\ pc[r] = "done"
    /\ ErrorOf(r) = "Failed to generate query from natural language"

\* C16: process reports a generation failure only after the fallback tier was
\* tried: a primary answer that is unusable, also one that cleaning empties,
\* sends generation to the fallback first.
C16_FailureOnlyAfterFallback ==
    \A r \in Reqs :
        GenerationFailureOf(r) => EventsOf(r, "generate_with_groq") # {}

\* Both tiers were asked in request r and neither returned a text, a
\* transport error counting as no text.
BothTiersEmpty(r) ==
    /\ pc[r] = "done"
    /\ EventsWith(r, "generate_with_ollama", FALSE) # {}
    /\ EventsWith(r, "generate_with_groq", FALSE) # {}

\* C17: when both tiers return nothing, route_query answers success = false
\* with the generation-failure error, generated_query "" and tier "none", and
\* neither validate_readonly nor execute_query is called.
C17_BothTiersEmptyOutcome ==
    \A r \in Reqs :
        BothTiersEmpty(r) =>
            /\ resp[r].kind = "query"
            /\ ~resp[r].success
            /\ ErrorOf(r) = "Failed to generate query from natural language"
            /\ resp[r].generated_query = ""
            /\ resp[r].llm_used = "none"
            /\ EventsOf(r, "validate_readonly") = {}
            /\ EventsOf(r, "execute_query") = {}

C17_Witness == \E r \in Reqs : BothTiersEmpty(r)

(***************************************************************************)
(* Properties of AIRouter.route_query: failures.                           *)
(***************************************************************************)

\* Request r ended without success after its generated query reached the
\* validator.
FailedAfterGeneration(r) ==
    /\ pc[r] = "done"
    /\ ~resp[r].success
    /\ EventsOf(r, "validate_readonly") # {}

\* C18: every outcome of a query that failed validation or execution carries
\* the generated query text, not empty, in generated_query, whatever the way
\* validation or execution failed.
C18_FailureCarriesGeneratedQuery ==
    \A r \in Reqs :
        FailedAfterGeneration(r) =>
            /\ resp[r].generated_query # ""
            /\ \A i \in EventsOf(r, "validate_readonly") :
                 resp[r].generated_query = trace[r][i].text

\* Request r was authorized and agent selection raised for the type of its
\* datasource.
AgentSelectionRaised(r) ==
    /\ pc[r] = "done"
    /\ resp[r].kind = "query"
    /\ Authorized(r)
    /\ IsNone(GetAgent(DatasourceOf(r).type))

\* C19: an exception of agent selection or of the agent's process, whatever
\* its type, becomes a response with success = false whose error carries the
\* internal-error marker.
C19_ExceptionsCarryInternalMarker ==
    \A r \in Reqs :
        AgentSelectionRaised(r) =>
            /\ ~resp[r].success
            /\ StartsWith(ErrorOf(r), "Internal error")

(***************************************************************************)
(* Properties of the agents' backend connections.                          *)
(***************************************************************************)

\* C20: every connection an agent's get_schema_context or execute_query opens
\* is released before the call returns, on every exit path: no request holds
\* a client or engine that one of its calls created and left open.
C20_ConnectionsReleased ==
    \A r \in Reqs : open_clients[r] = 0

(***************************************************************************)
(* Properties of the router under several requests.                        *)
(***************************************************************************)

\* Request r was answered and its requester does not own the datasource it
\* names, whether the identifier resolves or not.
AnsweredToOutsider(r) ==
    /\ pc[r] = "done"
    /\ ~Authorized(r)

\* C21: a requester who does not own a datasource gets the same response from
\* route_query, and the same from get_schema_info, whether the identifier
\* resolves to a datasource of someone else or to none.
C21_ExistenceNotDisclosed ==
    \A r1 \in Reqs, r2 \in Reqs :
        /\ AnsweredToOutsider(r1) /\ AnsweredToOutsider(r2)
        /\ req[r1].user_id = req[r2].user_id
        /\ resp[r1].kind = resp[r2].kind
        => resp[r1] = resp[r2]

\* C22: no field of an agent is written while a request is processed: every
\* step of every request, in any interleaving, leaves the agents' state as it
\* was.
C22_AgentsStateless == [][llm_used' = llm_used]_vars

(***************************************************************************)
(* Properties of BaseAgent.process: the stages of a call.                  *)
(***************************************************************************)

\* How far a request is: Start, the steps of Generating (schema context,
\* probe, primary, fallback), Validating, Executing, and the terminal states.
StageRank(p) ==
    CASE p = "idle" -> 0
      [] p = "schema_context" -> 1
      [] p = "health" -> 2
      [] p = "ollama" -> 3
      [] p = "groq" -> 4
      [] p = "validate" -> 5
      [] p = "execute" -> 6
      [] p = "done" -> 7

\* A step of request r goes forward, never back to a stage or again through
\* it; success comes from Executing only; a terminal state is left only as
\* the call returns.
StageStep(r) ==
    << pc[r], trace[r], resp[r] >> # << pc'[r], trace'[r], resp'[r] >> =>
        \/ pc[r] = "done" /\ pc'[r] = "idle"
        \/ /\ pc[r] # "done"
           /\ StageRank(pc'[r]) > StageRank(pc[r])
           /\ (pc'[r] = "validate" => pc[r] \in {"ollama", "groq"})
           /\ (pc'[r] = "execute" => pc[r] = "validate")
           /\ (pc'[r] = "done" /\ resp'[r].kind = "query" /\ resp'[r].success
                  => pc[r] = "execute")

\* C23: a process call goes Start, Generating, Validating, Executing and ends
\* in Succeeded or Failed: no stage is entered twice, Succeeded follows
\* Executing only, and a terminal state has no successor.
C23_StagesInOrder == [][\A r \in Reqs : StageStep(r)]_vars

\* A call failed in Executing, after it passed Generating and Validating.
C23_Witness ==
    \E r \in Reqs :
        /\ pc[r] = "done"
        /\ ~resp[r].success
        /\ EventsWith(r, "execute_query", FALSE) # {}

(***************************************************************************)
(* Properties of every validate_readonly.                                  *)
(***************************************************************************)

\* A call of validate_readonly: a verdict is recorded.
ValidatorCalled == vverdict' # vverdict \/ vagain' # vagain

SchemaContextFailed(r) == EventsWith(r, "get_schema_context", FALSE) # {}

\* C25: when the backend cannot be reached or read, get_schema_context gives
\* a placeholder text and does not raise, and the request goes on to
\* generation with that placeholder.
C25_SchemaFailureTolerated ==
    \A r \in Reqs :
        SchemaContextFailed(r) =>
            /\ ctx[r] = "Error extracting schema"
            /\ pc[r] = "health" \/ EventsOf(r, "check_ollama_health") # {}
            /\ pc[r] = "done" =>
                 \/ EventsOf(r, "generate_with_ollama") # {}
                 \/ EventsOf(r, "generate_with_groq") # {}

\* A request whose backend could not be read went on and a tier answered it.
C25_Witness ==
    \E r \in Reqs :
        /\ SchemaContextFailed(r)
        /\ pc[r] = "done"
        /\ \E i \in 1..Len(trace[r]) : trace[r][i].op \in GenerationOps /\ trace[r][i].ok

(***************************************************************************)
(* Properties of BaseAgent._clean_generated_query.                         *)
(***************************************************************************)

\* The text starts with one of the labels, in any letter case.
HasLabelPrefix(text) ==
    \E k \in 1..Len(prefixes_to_remove) :
        StartsWith(ToLower(text), ToLower(prefixes_to_remove[k]))

\* C27: the text handed to validation has no markdown fence and no leading
\* label left, in whatever order and combination they wrapped the query, and
\* cleaning it again changes nothing.
C27_CleanedOfFencesAndLabels ==
    vkind = "cleaned" =>
        /\ ~HasLabelPrefix(vtext)
        /\ ~Contains(vtext, Fence)
        /\ CleanGeneratedQuery(vtext) = vtext

(***************************************************************************)
(* Properties of MongoAgent.execute_query.                                 *)
(***************************************************************************)

\* execute_query was run on the query and the server answered.
MongoExecuted == vkind = "mongo_executed" /\ ~vbackend.err

\* The query is a find.
IsFind == Contains(vtext, "\"operation\":\"find\"")

\* The most rows the query asks for: its limit, the $limit stage of its
\* pipeline, or the default cap when it sets none.
RowsAskedFor ==
    IF Contains(vtext, "\"limit\":5") THEN 5
    ELSE IF Contains(vtext, "\"limit\":1001") THEN 1001
    ELSE IF Contains(vtext, "{\"$limit\":3}") THEN 3
    ELSE MONGO_DEFAULT_LIMIT

\* C28: execute_query of the document agent fails for want of a collection
\* only when the database has none; when the database has collections, a
\* query that names no collection, or one that does not exist, is run on the
\* first collection (which here holds as many matching documents as any).
C28_FirstCollectionFallback ==
    MongoExecuted =>
        /\ ~vresult.success => vbackend.collections = << >>
        /\ IsFind /\ vbackend.collections # << >> =>
             /\ vresult.success
             /\ vresult.row_count = Min(vbackend.n, RowsAskedFor)

\* The collection the query runs on, as execute_query picks it: the one the
\* query names, else the one the datasource names, else the first listed.
CollectionUsed ==
    IF Contains(vtext, "\"collection\":\"users\"") THEN "users"
    ELSE IF Contains(vtext, "\"collection\":\"ghost\"") THEN "ghost"
    ELSE IF vword # "" THEN vword
    ELSE vbackend.collections[1]

\* The documents of the collection used that match the query.
Matching ==
    IF CollectionExists(vbackend, CollectionUsed) THEN vbackend.n ELSE 0

\* C29: a find that sets no limit (absent or null) returns at most the default
\* cap of 100 rows, a find with limit L returns min(L, matching documents)
\* rows, and an aggregate whose pipeline has no $limit stage runs with one
\* appended: the row count is the lesser of the rows asked for and the
\* matching documents.
C29_DefaultLimits ==
    MongoExecuted /\ vresult.success =>
        /\ vresult.row_count = Min(RowsAskedFor, Matching)
        /\ vresult.data.n = vresult.row_count

\* The scenario: limit 5 over 3 matching documents gives row_count 3.
C29_Witness ==
    /\ MongoExecuted /\ vresult.success
    /\ Contains(vtext, "\"operation\":\"find\",\"filter\":{},\"limit\":5")
    /\ Matching = 3
    /\ vresult.row_count = 3

(***************************************************************************)
(* Properties of process under concurrent calls.                           *)
(***************************************************************************)

\* The tier that produced the generated query of request r.
OwnTier(r) ==
    IF EventsWith(r, "generate_with_ollama", TRUE) # {} THEN "ollama"
    ELSE IF EventsWith(r, "generate_with_groq", TRUE) # {} THEN "groq"
    ELSE "none"

\* The process call of request r has returned its outcome.
ProcessReturned(r) ==
    /\ pc[r] = "done"
    /\ resp[r].kind = "query"
    /\ EventsOf(r, "check_ollama_health") # {}
    /\ ~StartsWith(ErrorOf(r), "Internal error")

\* C30: under any interleaving of process calls on one agent, the tier in the
\* outcome of a call is the tier that produced that call's own generated
\* query, not the tier of another call in flight.
C30_OwnTierReported ==
    \A r \in Reqs : ProcessReturned(r) => resp[r].llm_used = OwnTier(r)

\* A call whose query came from the primary executed after another call on
\* the same agent had its query from the fallback.
C30_Witness ==
    \E r1 \in Reqs, r2 \in Reqs :
        /\ r1 # r2
        /\ ProcessReturned(r1)
        /\ EventsOf(r1, "execute_query") # {}
        /\ OwnTier(r1) = "ollama"
        /\ EventsOf(r2, "check_ollama_health") # {}
        /\ AgentOf(r1) = AgentOf(r2)
        /\ OwnTier(r2) = "groq"
        /\ llm_used[AgentOf(r1)] = "groq"

====
